---- MODULE Spec2Model ----
(***************************************************************************)
(* akavelink: the command executor, output parser and error classifier of *)
(* AkaveIPCClient (src/logger.js), with the error code registry           *)
(* (src/src/utils/error-codes.js), the transaction lookup                  *)
(* (src/web3-utils.js), the response helper of the HTTP layer              *)
(* (src/src/middleware/response-handler.js) and the upload and download    *)
(* routes of the two servers (server.js, src/src/server.ts).               *)
(*                                                                         *)
(* A JavaScript string is a sequence of one-character strings, so that     *)
(* startsWith, includes, substring, split, trim and the regular expression *)
(* of the source are computed on characters, as the code computes them.    *)
(***************************************************************************)
EXTENDS Integers, Sequences, FiniteSets, TLC

VARIABLES
    op,          \* the client operation called, "none" before the call
    bucketName,  \* its bucketName argument
    fileName,    \* its fileName (or filePath) argument
    pc,          \* where the call is
    stdout,      \* the stdout buffer of executeCommand
    stderr,      \* the stderr buffer of executeCommand
    chunks,      \* data events handled so far
    exitCode,    \* <<>> until 'close', then <<code>>
    spawnError,  \* the code of the 'error' event, Undefined when none
    spawned,     \* subprocesses spawned
    parser,      \* the parser argument of executeCommand
    trackTransaction, \* the trackTransaction argument of executeCommand
    promise,     \* the promise executeCommand awaits
    uncaught,    \* the error an event handler threw, NoError when none
    txHash,      \* what getLatestTransaction returned, Undefined before
    outcome,     \* the promise the client operation returns
    lookup,      \* the RPC calls, blocks and delay of getLatestTransaction
    request,     \* the HTTP request being handled
    disk,        \* the files the handlers create and read
    response,    \* the HTTP response of the request
    spc,         \* where the handler of the request is
    flight,      \* the executeCommand calls in flight at once
    buffers      \* the stdout and stderr buffers of the calls in flight

\* the state of the client
clientVars ==
    <<op, bucketName, fileName, pc, stdout, stderr, chunks, exitCode,
      spawnError, spawned, parser, trackTransaction, promise, uncaught,
      txHash, outcome, lookup>>

\* the state of the HTTP layer
serverVars == <<request, disk, response, spc>>

\* the state of the calls in flight at once
flightVars == <<flight, buffers>>

vars == <<clientVars, serverVars, flightVars>>

----------------------------------------------------------------------------
(* Bounds of the model *)

\* data events ('data' on stdout or stderr) of one subprocess
MaxChunks == 2
\* transactions in a block returned by getBlock
MaxTxs == 2
\* bytes of a downloaded file
MaxSize == 3

----------------------------------------------------------------------------
(* JavaScript values *)

\* the value undefined: no string equals it, every character being one
\* character long
Undefined == <<"undefined">>

Whitespace == {" ", "\n", "\t", "\r"}

Digits == {"0", "1", "2", "3", "4", "5", "6", "7", "8", "9"}

\* the character class [a-fA-F0-9]
HexDigits == Digits \cup {"a", "b", "c", "d", "e", "f", "A", "B", "C", "D", "E", "F"}

RECURSIVE TrimStart(_)
TrimStart(s) ==
    IF s # <<>> /\ Head(s) \in Whitespace THEN TrimStart(Tail(s)) ELSE s

RECURSIVE TrimEnd(_)
TrimEnd(s) ==
    IF s # <<>> /\ s[Len(s)] \in Whitespace
    THEN TrimEnd(SubSeq(s, 1, Len(s) - 1))
    ELSE s

\* String.prototype.trim
Trim(s) == TrimEnd(TrimStart(s))

\* p occurs in s at the 1-based position i
OccursAt(s, p, i) ==
    /\ i >= 1
    /\ i + Len(p) - 1 <= Len(s)
    /\ SubSeq(s, i, i + Len(p) - 1) = p

\* String.prototype.startsWith
StartsWith(s, p) == OccursAt(s, p, 1)

\* String.prototype.includes
Includes(s, p) == \E i \in 1..Len(s) : OccursAt(s, p, i)

\* String.prototype.indexOf: 0-based index of the first occurrence, or -1
IndexOf(s, p) ==
    LET I == {i \in 1..Len(s) : OccursAt(s, p, i)}
    IN  IF I = {} THEN -1
        ELSE (CHOOSE i \in I : \A j \in I : i <= j) - 1

\* String.prototype.substring(n): the text from the 0-based index n on
Substring(s, n) == IF n >= Len(s) THEN <<>> ELSE SubSeq(s, n + 1, Len(s))

\* String.prototype.split(sep), sep a non-empty string
RECURSIVE Split(_, _)
Split(s, sep) ==
    LET i == IndexOf(s, sep)
    IN  IF i = -1 THEN <<s>>
        ELSE <<SubSeq(s, 1, i)>> \o Split(Substring(s, i + Len(sep)), sep)

\* the bytes of a chunk: an ASCII character is one byte, written as the
\* character; "C3" and "A9" are the two bytes of the UTF-8 encoding of
\* U+00E9, a lead byte and a continuation byte
LeadBytes == {"C3"}

ContinuationBytes == {"A9"}

\* Buffer.prototype.toString of one chunk: UTF-8 decoding, in which a lead
\* byte with its continuation byte is one character and a lead byte at the
\* end of the chunk or a continuation byte without a lead byte is U+FFFD
RECURSIVE toString(_)
toString(data) ==
    IF data = <<>> THEN <<>>
    ELSE IF Head(data) \in LeadBytes
    THEN IF Len(data) >= 2 /\ data[2] \in ContinuationBytes
         THEN <<"U+00E9">> \o toString(Tail(Tail(data)))
         ELSE <<"U+FFFD">> \o toString(Tail(data))
    ELSE IF Head(data) \in ContinuationBytes
    THEN <<"U+FFFD">> \o toString(Tail(data))
    ELSE <<Head(data)>> \o toString(Tail(data))

\* String.prototype.toLowerCase on the letters the model uses
LowerOf(c) ==
    CASE c = "A" -> "a" [] c = "B" -> "b" [] c = "C" -> "c"
      [] c = "D" -> "d" [] c = "E" -> "e" [] c = "F" -> "f"
      [] OTHER -> c

ToLowerCase(s) == [i \in 1..Len(s) |-> LowerOf(s[i])]

\* s.match(/0x[a-fA-F0-9]{8}/): the first match, or Undefined (null)
MatchHex(s) ==
    LET M == {i \in 1..Len(s) :
                 /\ i + 9 <= Len(s)
                 /\ s[i] = "0"
                 /\ s[i + 1] = "x"
                 /\ \A k \in 2..9 : s[i + k] \in HexDigits}
    IN  IF M = {} THEN Undefined
        ELSE LET i == CHOOSE i \in M : \A j \in M : i <= j
             IN  SubSeq(s, i, i + 9)

\* a value of the program: an object (fields: key -> text), a list of
\* objects, a string, or a JSON scalar (number, true, false, null) kept by
\* its text
NoValue == [t |-> "undefined", fields |-> <<>>, items |-> <<>>, text |-> <<>>]

ObjectValue(f) == [t |-> "object", fields |-> f, items |-> <<>>, text |-> <<>>]

ListValue(l) == [t |-> "list", fields |-> <<>>, items |-> l, text |-> <<>>]

StringValue(s) == [t |-> "string", fields |-> <<>>, items |-> <<>>, text |-> s]

ScalarValue(s) == [t |-> "scalar", fields |-> <<>>, items |-> <<>>, text |-> s]

\* obj[k] = v
Put(obj, k, v) == [x \in (DOMAIN obj) \cup {k} |-> IF x = k THEN v ELSE obj[x]]

\* an Error object: name, code, status, message, the message of its
\* originalError (Undefined when there is none) and the fields its
\* validation details name
NoError ==
    [name |-> "none", code |-> Undefined, status |-> 0, message |-> <<>>,
     original |-> Undefined, details |-> {}]

\* new Error(message)
NewError(message) ==
    [name |-> "Error", code |-> Undefined, status |-> 0,
     message |-> IF message = Undefined THEN <<>> ELSE message,
     original |-> Undefined, details |-> {}]

\* the TypeError of undefined.trim()
TypeErrorTrim ==
    [name |-> "TypeError", code |-> Undefined, status |-> 0,
     message |-> <<"C","a","n","n","o","t"," ","r","e","a","d"," ","p","r","o","p","e","r","t","i","e","s"," ","o","f"," ","u","n","d","e","f","i","n","e","d"," ","(","r","e","a","d","i","n","g"," ","'","t","r","i","m","'",")">>,
     original |-> Undefined, details |-> {}]

\* the ReferenceError of evaluating an identifier that is not in scope
ReferenceErrorHttpStatus ==
    [name |-> "ReferenceError", code |-> Undefined, status |-> 0,
     message |-> <<"H","t","t","p","S","t","a","t","u","s"," ","i","s"," ","n","o","t"," ","d","e","f","i","n","e","d">>, original |-> Undefined, details |-> {}]

\* the SyntaxError of JSON.parse
SyntaxErrorJSON ==
    [name |-> "SyntaxError", code |-> Undefined, status |-> 0,
     message |-> <<"U","n","e","x","p","e","c","t","e","d"," ","t","o","k","e","n">>, original |-> Undefined, details |-> {}]

\* how an evaluation completes: it returns a value or throws an error
Return(v) == [kind |-> "return", value |-> v, error |-> NoError]

Throw(e) == [kind |-> "throw", value |-> NoValue, error |-> e]

----------------------------------------------------------------------------
(* The error code registry, src/src/utils/error-codes.js *)

HttpStatus ==
    [OK |-> 200, BAD_REQUEST |-> 400, UNAUTHORIZED |-> 401, FORBIDDEN |-> 403,
     NOT_FOUND |-> 404, CONFLICT |-> 409, INTERNAL_SERVER_ERROR |-> 500,
     RANGE_NOT_SATISFIABLE |-> 416]

SDKErrors ==
    [BUCKET_ALREADY_EXISTS |-> <<"0","x","4","9","7","e","f","2","c","2">>,
     BUCKET_INVALID |-> <<"0","x","4","f","4","b","2","0","2","a">>,
     BUCKET_INVALID_OWNER |-> <<"0","x","d","c","6","4","d","0","a","d">>,
     BUCKET_NONEXISTS |-> <<"0","x","9","3","8","a","9","2","b","7">>,
     BUCKET_NONEMPTY |-> <<"0","x","8","9","f","d","d","c","0","0">>,
     FILE_ALREADY_EXISTS |-> <<"0","x","6","8","9","1","d","d","e","0">>,
     FILE_INVALID |-> <<"0","x","7","7","a","3","c","b","d","8">>,
     FILE_NONEXISTS |-> <<"0","x","2","1","5","8","4","5","8","6">>,
     FILE_NONEMPTY |-> <<"0","x","c","4","a","3","b","6","f","1">>,
     FILE_NAME_DUPLICATE |-> <<"0","x","d","0","9","e","c","7","a","f">>,
     FILE_FULLY_UPLOADED |-> <<"0","x","d","9","6","b","0","3","b","1">>,
     FILE_CHUNK_DUPLICATE |-> <<"0","x","7","0","2","c","f","7","4","0">>,
     BLOCK_ALREADY_EXISTS |-> <<"0","x","c","1","e","d","d","1","6","a">>,
     BLOCK_INVALID |-> <<"0","x","c","b","2","0","e","8","8","c">>,
     BLOCK_NONEXISTS |-> <<"0","x","1","5","1","2","3","1","2","1">>,
     INVALID_ARRAY_LENGTH |-> <<"0","x","8","5","6","b","3","0","0","d">>,
     INVALID_FILE_BLOCKS_COUNT |-> <<"0","x","1","7","e","c","8","3","7","0">>,
     INVALID_LAST_BLOCK_SIZE |-> <<"0","x","5","6","6","0","e","b","d","2">>,
     INVALID_ENCODED_SIZE |-> <<"0","x","1","b","6","f","d","f","e","b">>,
     INVALID_FILE_CID |-> <<"0","x","f","e","3","3","d","b","9","2">>,
     INDEX_MISMATCH |-> <<"0","x","3","7","c","7","f","2","5","5">>,
     NO_POLICY |-> <<"0","x","c","e","f","a","6","b","0","5">>]

VALIDATION_ERROR == <<"V","A","L","I","D","A","T","I","O","N","_","E","R","R","O","R">>
SYSTEM_ERROR == <<"S","Y","S","T","E","M","_","E","R","R","O","R">>
UNKNOWN_ERROR == <<"U","N","K","N","O","W","N","_","E","R","R","O","R">>
RANGE_ERROR == <<"R","A","N","G","E","_","E","R","R","O","R">>
STREAM_ERROR == <<"S","T","R","E","A","M","_","E","R","R","O","R">>

\* the object ErrorMessages, as its list of <<key, message>> entries
ErrorMessages ==
    << <<SDKErrors.BUCKET_ALREADY_EXISTS, <<"B","u","c","k","e","t"," ","a","l","r","e","a","d","y"," ","e","x","i","s","t","s">>>>,
       <<SDKErrors.BUCKET_INVALID, <<"I","n","v","a","l","i","d"," ","b","u","c","k","e","t"," ","n","a","m","e">>>>,
       <<SDKErrors.BUCKET_INVALID_OWNER, <<"I","n","v","a","l","i","d"," ","b","u","c","k","e","t"," ","o","w","n","e","r">>>>,
       <<SDKErrors.BUCKET_NONEXISTS, <<"B","u","c","k","e","t"," ","d","o","e","s"," ","n","o","t"," ","e","x","i","s","t">>>>,
       <<SDKErrors.BUCKET_NONEMPTY, <<"B","u","c","k","e","t"," ","i","s"," ","n","o","t"," ","e","m","p","t","y">>>>,
       <<SDKErrors.FILE_ALREADY_EXISTS, <<"F","i","l","e"," ","a","l","r","e","a","d","y"," ","e","x","i","s","t","s">>>>,
       <<SDKErrors.FILE_INVALID, <<"I","n","v","a","l","i","d"," ","f","i","l","e"," ","n","a","m","e">>>>,
       <<SDKErrors.FILE_NONEXISTS, <<"F","i","l","e"," ","d","o","e","s"," ","n","o","t"," ","e","x","i","s","t">>>>,
       <<SDKErrors.FILE_NONEMPTY, <<"F","i","l","e"," ","i","s"," ","n","o","t"," ","e","m","p","t","y">>>>,
       <<SDKErrors.FILE_NAME_DUPLICATE, <<"D","u","p","l","i","c","a","t","e"," ","f","i","l","e"," ","n","a","m","e">>>>,
       <<SDKErrors.FILE_FULLY_UPLOADED, <<"F","i","l","e"," ","i","s"," ","a","l","r","e","a","d","y"," ","f","u","l","l","y"," ","u","p","l","o","a","d","e","d">>>>,
       <<SDKErrors.FILE_CHUNK_DUPLICATE, <<"D","u","p","l","i","c","a","t","e"," ","f","i","l","e"," ","c","h","u","n","k">>>>,
       <<SDKErrors.BLOCK_ALREADY_EXISTS, <<"B","l","o","c","k"," ","a","l","r","e","a","d","y"," ","e","x","i","s","t","s">>>>,
       <<SDKErrors.BLOCK_INVALID, <<"I","n","v","a","l","i","d"," ","b","l","o","c","k">>>>,
       <<SDKErrors.BLOCK_NONEXISTS, <<"B","l","o","c","k"," ","n","o","t"," ","f","o","u","n","d">>>>,
       <<SDKErrors.INVALID_ARRAY_LENGTH, <<"I","n","v","a","l","i","d"," ","a","r","r","a","y"," ","l","e","n","g","t","h">>>>,
       <<SDKErrors.INVALID_FILE_BLOCKS_COUNT, <<"I","n","v","a","l","i","d"," ","f","i","l","e"," ","b","l","o","c","k","s"," ","c","o","u","n","t">>>>,
       <<SDKErrors.INVALID_LAST_BLOCK_SIZE, <<"I","n","v","a","l","i","d"," ","l","a","s","t"," ","b","l","o","c","k"," ","s","i","z","e">>>>,
       <<SDKErrors.INVALID_ENCODED_SIZE, <<"I","n","v","a","l","i","d"," ","e","n","c","o","d","e","d"," ","s","i","z","e">>>>,
       <<SDKErrors.INVALID_FILE_CID, <<"I","n","v","a","l","i","d"," ","f","i","l","e"," ","C","I","D">>>>,
       <<SDKErrors.INDEX_MISMATCH, <<"I","n","d","e","x"," ","m","i","s","m","a","t","c","h">>>>,
       <<SDKErrors.NO_POLICY, <<"N","o"," ","p","o","l","i","c","y"," ","f","o","u","n","d">>>>,
       <<RANGE_ERROR, <<"R","e","q","u","e","s","t","e","d"," ","r","a","n","g","e"," ","n","o","t"," ","s","a","t","i","s","f","i","a","b","l","e">>>>,
       <<STREAM_ERROR, <<"E","r","r","o","r"," ","o","c","c","u","r","r","e","d"," ","w","h","i","l","e"," ","s","t","r","e","a","m","i","n","g"," ","f","i","l","e">>>> >>

\* the object ErrorHttpStatus, as its list of <<key, status>> entries
ErrorHttpStatus ==
    << <<SDKErrors.BUCKET_ALREADY_EXISTS, HttpStatus.CONFLICT>>,
       <<SDKErrors.BUCKET_INVALID, HttpStatus.BAD_REQUEST>>,
       <<SDKErrors.BUCKET_INVALID_OWNER, HttpStatus.FORBIDDEN>>,
       <<SDKErrors.BUCKET_NONEXISTS, HttpStatus.NOT_FOUND>>,
       <<SDKErrors.BUCKET_NONEMPTY, HttpStatus.BAD_REQUEST>>,
       <<SDKErrors.FILE_ALREADY_EXISTS, HttpStatus.CONFLICT>>,
       <<SDKErrors.FILE_INVALID, HttpStatus.BAD_REQUEST>>,
       <<SDKErrors.FILE_NONEXISTS, HttpStatus.NOT_FOUND>>,
       <<SDKErrors.FILE_FULLY_UPLOADED, HttpStatus.CONFLICT>>,
       <<SDKErrors.FILE_NAME_DUPLICATE, HttpStatus.CONFLICT>>,
       <<SDKErrors.FILE_CHUNK_DUPLICATE, HttpStatus.CONFLICT>>,
       <<SDKErrors.BLOCK_ALREADY_EXISTS, HttpStatus.CONFLICT>>,
       <<SDKErrors.BLOCK_INVALID, HttpStatus.BAD_REQUEST>>,
       <<SDKErrors.BLOCK_NONEXISTS, HttpStatus.NOT_FOUND>>,
       <<SDKErrors.INVALID_ARRAY_LENGTH, HttpStatus.BAD_REQUEST>>,
       <<SDKErrors.INVALID_FILE_BLOCKS_COUNT, HttpStatus.BAD_REQUEST>>,
       <<SDKErrors.INVALID_LAST_BLOCK_SIZE, HttpStatus.BAD_REQUEST>>,
       <<SDKErrors.INVALID_ENCODED_SIZE, HttpStatus.BAD_REQUEST>>,
       <<SDKErrors.INVALID_FILE_CID, HttpStatus.BAD_REQUEST>>,
       <<SDKErrors.NO_POLICY, HttpStatus.NOT_FOUND>>,
       <<VALIDATION_ERROR, HttpStatus.BAD_REQUEST>>,
       <<SYSTEM_ERROR, HttpStatus.INTERNAL_SERVER_ERROR>>,
       <<UNKNOWN_ERROR, HttpStatus.INTERNAL_SERVER_ERROR>>,
       <<RANGE_ERROR, HttpStatus.RANGE_NOT_SATISFIABLE>>,
       <<STREAM_ERROR, HttpStatus.INTERNAL_SERVER_ERROR>> >>

\* the keys of a registry object
Keys(table) == {table[i][1] : i \in DOMAIN table}

\* ErrorMessages[code]: the message, or Undefined
MessageOf(code) ==
    IF code \in Keys(ErrorMessages)
    THEN ErrorMessages[CHOOSE i \in DOMAIN ErrorMessages : ErrorMessages[i][1] = code][2]
    ELSE Undefined

\* ErrorHttpStatus[code]: the status, or 0 for undefined (both are falsy)
StatusOf(code) ==
    IF code \in Keys(ErrorHttpStatus)
    THEN ErrorHttpStatus[CHOOSE i \in DOMAIN ErrorHttpStatus : ErrorHttpStatus[i][1] = code][2]
    ELSE 0


----------------------------------------------------------------------------
(* The error classifier, src/logger.js *)

\* a function that returns the Error object e
ReturnError(e) == [kind |-> "return", value |-> NoValue, error |-> e]

\* a variant of createAkaveError that gives every error the status 500
createAkaveErrorStatus500(code, message, originalError, validationDetails) ==
    ReturnError(
        [name |-> "AkaveError", code |-> code,
         status |-> HttpStatus.INTERNAL_SERVER_ERROR,
         message |-> IF message = Undefined THEN <<>> ELSE message,
         original |-> IF originalError = NoError THEN Undefined
                      ELSE originalError.message,
         details |-> validationDetails])

\* createAkaveError: logger.js imports SDKErrors, ErrorMessages and
\* ErrorHttpStatus but not HttpStatus, so the right operand of
\* ErrorHttpStatus[code] || HttpStatus.INTERNAL_SERVER_ERROR, evaluated when
\* the code has no status, throws a ReferenceError
createAkaveError(code, message, originalError, validationDetails) ==
    IF StatusOf(code) # 0
    THEN ReturnError(
             [name |-> "AkaveError", code |-> code, status |-> StatusOf(code),
              message |-> IF message = Undefined THEN <<>> ELSE message,
              original |-> IF originalError = NoError THEN Undefined
                           ELSE originalError.message,
              details |-> validationDetails])
    ELSE Throw(ReferenceErrorHttpStatus)

handleError(error, output) ==
    IF error.name = "AkaveError" THEN ReturnError(error)
    ELSE IF Includes(error.message, <<"B","u","c","k","e","t","N","o","n","e","m","p","t","y">>)
    THEN createAkaveError(SDKErrors.BUCKET_NONEMPTY,
                          MessageOf(SDKErrors.BUCKET_NONEMPTY), error, {})
    ELSE IF Includes(error.message, <<"F","i","l","e","F","u","l","l","y","U","p","l","o","a","d","e","d">>)
    THEN createAkaveError(SDKErrors.FILE_FULLY_UPLOADED,
                          MessageOf(SDKErrors.FILE_FULLY_UPLOADED), error, {})
    ELSE IF error.code = VALIDATION_ERROR THEN ReturnError(error)
    ELSE IF MatchHex(error.message) # Undefined
    THEN LET errorCode == MatchHex(error.message)
         IN  createAkaveError(errorCode,
                              IF MessageOf(errorCode) = Undefined
                              THEN <<"U","n","k","n","o","w","n"," ","S","D","K"," ","e","r","r","o","r">>
                              ELSE MessageOf(errorCode),
                              error, {})
    ELSE IF \/ Includes(error.message, <<"U","n","e","x","p","e","c","t","e","d"," ","o","u","t","p","u","t"," ","f","o","r","m","a","t">>)
            \/ Includes(error.message, <<"F","a","i","l","e","d"," ","t","o"," ","p","a","r","s","e"," ","o","u","t","p","u","t">>)
    THEN createAkaveError(SDKErrors.BUCKET_INVALID,
                          MessageOf(SDKErrors.BUCKET_INVALID), error, {})
    ELSE IF error.code = <<"E","N","O","E","N","T">>
    THEN createAkaveError(SYSTEM_ERROR,
             <<"C","o","m","m","a","n","d"," ","n","o","t"," ","f","o","u","n","d",":"," ","a","k","a","v","e","c","l","i","."," ","P","l","e","a","s","e"," ","e","n","s","u","r","e"," ","i","t"," ","i","s"," ","i","n","s","t","a","l","l","e","d"," ","c","o","r","r","e","c","t","l","y",".">>,
             error, {})
    ELSE createAkaveError(UNKNOWN_ERROR,
                          IF error.message = <<>>
                          THEN <<"A","n"," ","u","n","e","x","p","e","c","t","e","d"," ","e","r","r","o","r"," ","o","c","c","u","r","r","e","d">>
                          ELSE error.message,
                          error, {})

----------------------------------------------------------------------------
(* The output parser, src/logger.js *)

\* the index after the digits of s that start at the 1-based index i
RECURSIVE SkipDigits(_, _)
SkipDigits(s, i) ==
    IF i <= Len(s) /\ s[i] \in Digits THEN SkipDigits(s, i + 1) ELSE i

\* the JSON grammar of a number: -? int frac? exp?
IsJSONNumber(s) ==
    LET a == IF s # <<>> /\ s[1] = "-" THEN 2 ELSE 1
        b == SkipDigits(s, a)
        hasFrac == b <= Len(s) /\ s[b] = "."
        c == IF hasFrac THEN SkipDigits(s, b + 1) ELSE b
        hasExp == c <= Len(s) /\ s[c] \in {"e", "E"}
        d == IF hasExp /\ c + 1 <= Len(s) /\ s[c + 1] \in {"+", "-"}
             THEN c + 2 ELSE c + 1
        e == IF hasExp THEN SkipDigits(s, d) ELSE c
    IN  /\ b > a
        /\ (s[a] = "0" => b = a + 1)
        /\ (hasFrac => c > b + 1)
        /\ (hasExp => e > d)
        /\ e = Len(s) + 1

\* the JSON grammar of a string without escapes: a quote, characters other
\* than quote, backslash and control characters, a quote
IsJSONString(s) ==
    /\ Len(s) >= 2
    /\ s[1] = "\""
    /\ s[Len(s)] = "\""
    /\ \A i \in 2..(Len(s) - 1) : s[i] \notin {"\"", "\\", "\n", "\t", "\r"}

\* JSON.parse on the texts of the model, which hold no bracket, brace or
\* backslash: such a text is JSON exactly when, its white space removed, it
\* is a number, one of true, false, null, or a string
JSONParse(text) ==
    LET t == Trim(text)
    IN  IF IsJSONNumber(t) \/ t \in {<<"t","r","u","e">>, <<"f","a","l","s","e">>, <<"n","u","l","l">>}
        THEN Return(ScalarValue(t))
        ELSE IF IsJSONString(t)
        THEN Return(StringValue(SubSeq(t, 2, Len(t) - 1)))
        ELSE Throw(SyntaxErrorJSON)

\* const [key, value] = info.split("=")
KeyOf(info) == Split(info, <<"=">>)[1]

\* a variant of ValueOf that takes the whole pair for the value
ValueOfWhole(info) == info

ValueOf(info) ==
    LET parts == Split(info, <<"=">>)
    IN  IF Len(parts) >= 2 THEN parts[2] ELSE Undefined

\* infos.forEach(info => { const [key, value] = info.split("=");
\*                         obj[key.trim()] = value.trim(); })
\* undefined.trim() throws a TypeError
RECURSIVE AssignPairs(_, _)
AssignPairs(infos, obj) ==
    IF infos = <<>> THEN Return(ObjectValue(obj))
    ELSE IF ValueOf(Head(infos)) = Undefined THEN Throw(TypeErrorTrim)
    ELSE AssignPairs(Tail(infos),
                     Put(obj, Trim(KeyOf(Head(infos))), Trim(ValueOf(Head(infos)))))

\* the forEach of parseBucketCreation, which checks !key || !value
RECURSIVE AssignCheckedPairs(_, _)
AssignCheckedPairs(infos, obj) ==
    IF infos = <<>> THEN Return(ObjectValue(obj))
    ELSE IF \/ KeyOf(Head(infos)) = <<>>
            \/ ValueOf(Head(infos)) \in {Undefined, <<>>}
    THEN LET thrown == createAkaveError(SDKErrors.BUCKET_INVALID,
                           MessageOf(SDKErrors.BUCKET_INVALID),
                           NewError(<<"I","n","v","a","l","i","d"," ","b","u","c","k","e","t"," ","i","n","f","o"," ","f","o","r","m","a","t">>), {})
         IN  Throw(thrown.error)
    ELSE AssignCheckedPairs(Tail(infos),
                     Put(obj, Trim(KeyOf(Head(infos))), Trim(ValueOf(Head(infos)))))

\* throw this.createAkaveError(code, ErrorMessages[code], original)
ThrowAkaveError(code, original) ==
    Throw(createAkaveError(code, MessageOf(code), original, {}).error)

parseBucketCreation(output) ==
    IF output = <<>> \/ Trim(output) = <<>>
    THEN ThrowAkaveError(SDKErrors.BUCKET_INVALID, NewError(<<"E","m","p","t","y"," ","r","e","s","p","o","n","s","e">>))
    ELSE IF ~StartsWith(output, <<"B","u","c","k","e","t"," ","c","r","e","a","t","e","d",":">>)
    THEN ThrowAkaveError(SDKErrors.BUCKET_INVALID,
                         NewError(<<"I","n","v","a","l","i","d"," ","r","e","s","p","o","n","s","e"," ","f","o","r","m","a","t">>))
    ELSE LET bucketInfo ==
                 Split(Trim(Substring(output, Len(<<"B","u","c","k","e","t"," ","c","r","e","a","t","e","d",":">>))), <<","," ">>)
             r == AssignCheckedPairs(bucketInfo, <<>>)
         IN  IF r.kind = "return" \/ r.error.name = "AkaveError" THEN r
             ELSE ThrowAkaveError(SDKErrors.BUCKET_INVALID, r.error)

\* a variant of ParseLines that puts each record before the earlier ones
RECURSIVE ParseLinesPrepend(_, _, _, _)
ParseLinesPrepend(lines, prefix, skip, acc) ==
    IF lines = <<>> THEN Return(ListValue(acc))
    ELSE IF StartsWith(Head(lines), prefix)
    THEN LET r == AssignPairs(Split(Substring(Head(lines), skip), <<","," ">>), <<>>)
         IN  IF r.kind = "throw" THEN r
             ELSE ParseLinesPrepend(Tail(lines), prefix, skip, <<r.value>> \o acc)
    ELSE ParseLinesPrepend(Tail(lines), prefix, skip, acc)

\* the loop over the lines of parseBucketList and parseFileList: prefix is
\* the record prefix, skip the argument of substring
RECURSIVE ParseLines(_, _, _, _)
ParseLines(lines, prefix, skip, acc) ==
    IF lines = <<>> THEN Return(ListValue(acc))
    ELSE IF StartsWith(Head(lines), prefix)
    THEN LET r == AssignPairs(Split(Substring(Head(lines), skip), <<","," ">>), <<>>)
         IN  IF r.kind = "throw" THEN r
             ELSE ParseLines(Tail(lines), prefix, skip, Append(acc, r.value))
    ELSE ParseLines(Tail(lines), prefix, skip, acc)

parseBucketList(output) ==
    ParseLines(Split(output, <<"\n">>), <<"B","u","c","k","e","t",":">>, 8, <<>>)

parseBucketView(output) ==
    IF ~StartsWith(output, <<"B","u","c","k","e","t",":">>)
    THEN Throw(NewError(<<"U","n","e","x","p","e","c","t","e","d"," ","o","u","t","p","u","t"," ","f","o","r","m","a","t"," ","f","o","r"," ","b","u","c","k","e","t"," ","v","i","e","w">>))
    ELSE AssignPairs(Split(Substring(output, 8), <<","," ">>), <<>>)

\* a variant of parseBucketDeletion that looks at the prefix first
parseBucketDeletionPrefixFirst(output) ==
    IF StartsWith(output, <<"B","u","c","k","e","t"," ","d","e","l","e","t","e","d",":">>)
    THEN Return(ObjectValue(Put(<<>>, <<"m","e","s","s","a","g","e">>, <<"B","u","c","k","e","t"," ","d","e","l","e","t","e","d"," ","s","u","c","c","e","s","s","f","u","l","l","y">>)))
    ELSE IF Includes(output, <<"B","u","c","k","e","t","N","o","n","e","m","p","t","y">>)
    THEN ThrowAkaveError(SDKErrors.BUCKET_NONEMPTY, NewError(output))
    ELSE ThrowAkaveError(SDKErrors.BUCKET_INVALID,
                         NewError(<<"I","n","v","a","l","i","d"," ","r","e","s","p","o","n","s","e"," ","f","o","r","m","a","t">>))

parseBucketDeletion(output) ==
    IF Includes(output, <<"B","u","c","k","e","t","N","o","n","e","m","p","t","y">>)
    THEN ThrowAkaveError(SDKErrors.BUCKET_NONEMPTY, NewError(output))
    ELSE IF ~StartsWith(output, <<"B","u","c","k","e","t"," ","d","e","l","e","t","e","d",":">>)
    THEN ThrowAkaveError(SDKErrors.BUCKET_INVALID,
                         NewError(<<"I","n","v","a","l","i","d"," ","r","e","s","p","o","n","s","e"," ","f","o","r","m","a","t">>))
    ELSE Return(ObjectValue(Put(<<>>, <<"m","e","s","s","a","g","e">>, <<"B","u","c","k","e","t"," ","d","e","l","e","t","e","d"," ","s","u","c","c","e","s","s","f","u","l","l","y">>)))

parseFileList(output) ==
    ParseLines(Split(output, <<"\n">>), <<"F","i","l","e",":">>, 6, <<>>)

parseFileInfo(output) ==
    IF ~StartsWith(output, <<"F","i","l","e",":">>)
    THEN Throw(NewError(<<"U","n","e","x","p","e","c","t","e","d"," ","o","u","t","p","u","t"," ","f","o","r","m","a","t"," ","f","o","r"," ","f","i","l","e"," ","i","n","f","o">>))
    ELSE AssignPairs(Split(Substring(output, 6), <<","," ">>), <<>>)

\* a variant of parseFileUpload that takes the last line holding the marker
parseFileUploadLastLine(output) ==
    IF Includes(output, <<"F","i","l","e","F","u","l","l","y","U","p","l","o","a","d","e","d">>)
    THEN ThrowAkaveError(SDKErrors.FILE_FULLY_UPLOADED, NewError(output))
    ELSE LET lines == Split(output, <<"\n">>)
             found == {i \in DOMAIN lines :
                          Includes(lines[i], <<"F","i","l","e"," ","u","p","l","o","a","d","e","d"," ","s","u","c","c","e","s","s","f","u","l","l","y",":">>)}
         IN  IF found = {}
             THEN Throw(NewError(<<"F","i","l","e"," ","u","p","l","o","a","d"," ","f","a","i","l","e","d",":"," ">> \o output))
             ELSE LET successLine ==
                          lines[CHOOSE i \in found : \A j \in found : i >= j]
                      fileInfo ==
                          Split(Trim(Substring(successLine,
                                    IndexOf(successLine, <<"F","i","l","e"," ","u","p","l","o","a","d","e","d"," ","s","u","c","c","e","s","s","f","u","l","l","y",":">>)
                                    + Len(<<"F","i","l","e"," ","u","p","l","o","a","d","e","d"," ","s","u","c","c","e","s","s","f","u","l","l","y",":">>))),
                                <<","," ">>)
                  IN  AssignPairs(fileInfo, <<>>)

parseFileUpload(output) ==
    IF Includes(output, <<"F","i","l","e","F","u","l","l","y","U","p","l","o","a","d","e","d">>)
    THEN ThrowAkaveError(SDKErrors.FILE_FULLY_UPLOADED, NewError(output))
    ELSE LET lines == Split(output, <<"\n">>)
             found == {i \in DOMAIN lines :
                          Includes(lines[i], <<"F","i","l","e"," ","u","p","l","o","a","d","e","d"," ","s","u","c","c","e","s","s","f","u","l","l","y",":">>)}
         IN  IF found = {}
             THEN Throw(NewError(<<"F","i","l","e"," ","u","p","l","o","a","d"," ","f","a","i","l","e","d",":"," ">> \o output))
             ELSE LET successLine ==
                          lines[CHOOSE i \in found : \A j \in found : i <= j]
                      fileInfo ==
                          Split(Trim(Substring(successLine,
                                    IndexOf(successLine, <<"F","i","l","e"," ","u","p","l","o","a","d","e","d"," ","s","u","c","c","e","s","s","f","u","l","l","y",":">>)
                                    + Len(<<"F","i","l","e"," ","u","p","l","o","a","d","e","d"," ","s","u","c","c","e","s","s","f","u","l","l","y",":">>))),
                                <<","," ">>)
                  IN  AssignPairs(fileInfo, <<>>)

\* a variant of parseFileDownload that changes the case of the text
parseFileDownloadLowerCase(output) == Return(StringValue(ToLowerCase(output)))

parseFileDownload(output) == Return(StringValue(output))

parseOutput(output, kind) ==
    IF JSONParse(output).kind = "return" THEN JSONParse(output)
    ELSE CASE kind = "createBucket" -> parseBucketCreation(output)
           [] kind = "listBuckets" -> parseBucketList(output)
           [] kind = "viewBucket" -> parseBucketView(output)
           [] kind = "deleteBucket" -> parseBucketDeletion(output)
           [] kind = "listFiles" -> parseFileList(output)
           [] kind = "fileInfo" -> parseFileInfo(output)
           [] kind = "uploadFile" -> parseFileUpload(output)
           [] kind = "downloadFile" -> parseFileDownload(output)
           [] OTHER -> Return(StringValue(output))


----------------------------------------------------------------------------
(* Input validation, src/logger.js *)

\* an argument that is not a string (and is truthy), such as a number
NotAString == <<"number">>

\* the value null
Null == <<"null">>

IsString(v) == v \notin {Undefined, Null, NotAString}

\* !name || typeof name !== 'string' || !name.trim()
IsBlank(name) == ~IsString(name) \/ name = <<>> \/ Trim(name) = <<>>

\* validateInput(type, params): the error it returns, NoError for null
validateInput(type, bucket, file) ==
    CASE type = "bucket" ->
             IF IsBlank(bucket)
             THEN createAkaveError(VALIDATION_ERROR, <<"I","n","v","a","l","i","d"," ","b","u","c","k","e","t"," ","n","a","m","e">>,
                                   NoError, {"bucketName"}).error
             ELSE NoError
      [] type = "file" ->
             LET errors == (IF IsBlank(bucket) THEN {"bucketName"} ELSE {})
                           \cup (IF IsBlank(file) THEN {"fileName"} ELSE {})
             IN  IF errors # {}
                 THEN createAkaveError(VALIDATION_ERROR,
                                       <<"I","n","v","a","l","i","d"," ","i","n","p","u","t"," ","p","a","r","a","m","e","t","e","r","s">>,
                                       NoError, errors).error
                 ELSE NoError
      [] OTHER -> NoError

----------------------------------------------------------------------------
(* Promises *)

Pending == [state |-> "pending", value |-> NoValue, error |-> NoError]

Resolved(v) == [state |-> "resolved", value |-> v, error |-> NoError]

Rejected(e) == [state |-> "rejected", value |-> NoValue, error |-> e]

\* what an event handler does: it calls resolve(value) or reject(error), or
\* an exception leaves it (act = "throw")
Resolve(v) == [act |-> "resolve", value |-> v, error |-> NoError]

Reject(e) == [act |-> "reject", value |-> NoValue, error |-> e]

Thrown(e) == [act |-> "throw", value |-> NoValue, error |-> e]

\* reject(c) for the completion c of an expression that builds the error
RejectWith(c) == IF c.kind = "throw" THEN Thrown(c.error) ELSE Reject(c.error)

\* a variant of Settle in which a later resolve or reject replaces the
\* settlement
SettleAgain(p, effect) ==
    CASE effect.act = "resolve" -> Resolved(effect.value)
      [] effect.act = "reject" -> Rejected(effect.error)
      [] OTHER -> p

\* a promise settles once: resolve and reject do nothing to a settled one
Settle(p, effect) ==
    IF p.state # "pending" THEN p
    ELSE CASE effect.act = "resolve" -> Resolved(effect.value)
           [] effect.act = "reject" -> Rejected(effect.error)
           [] OTHER -> p

----------------------------------------------------------------------------
(* The command executor, src/logger.js *)

\* no resolve, no reject and no exception
NoEffect == [act |-> "none", value |-> NoValue, error |-> NoError]

\* a variant of stderrCheck that looks for the hex code alone
stderrCheckHexOnly(err) ==
    IF err # <<>> /\ MatchHex(err) # Undefined
    THEN RejectWith(createAkaveError(MatchHex(err), MessageOf(MatchHex(err)),
                                     NewError(err), {}))
    ELSE NoEffect

\* the block if (stderr) { ... } of the close handler: the rejection it
\* makes, NoEffect when it falls through
stderrCheck(err) ==
    IF err # <<>> /\ MatchHex(err) # Undefined
    THEN RejectWith(createAkaveError(MatchHex(err), MessageOf(MatchHex(err)),
                                     NewError(err), {}))
    ELSE IF err # <<>> /\ Includes(err, <<"B","u","c","k","e","t","N","o","n","e","m","p","t","y">>)
    THEN RejectWith(createAkaveError(SDKErrors.BUCKET_NONEMPTY,
                        MessageOf(SDKErrors.BUCKET_NONEMPTY), NewError(err), {}))
    ELSE IF err # <<>> /\ Includes(err, <<"F","i","l","e","F","u","l","l","y","U","p","l","o","a","d","e","d">>)
    THEN RejectWith(createAkaveError(SDKErrors.FILE_FULLY_UPLOADED,
                        MessageOf(SDKErrors.FILE_FULLY_UPLOADED), NewError(err), {}))
    ELSE NoEffect

\* the body of process.on("close", (code) => ...)
closeHandler(out, err, code, kind) ==
    LET output == Trim(out \o err)
    IN  IF stderrCheck(err) # NoEffect THEN stderrCheck(err)
        ELSE IF code = 0
        THEN LET result == parseOutput(output, kind)
             IN  IF result.kind = "return" THEN Resolve(result.value)
                 ELSE RejectWith(handleError(result.error, output))
        ELSE RejectWith(handleError(NewError(IF err # <<>> THEN err ELSE output),
                                    output))

\* a variant of errorHandler that rejects with the system error as it is
errorHandlerRaw(err) == Reject(err)

\* the body of process.on("error", (err) => ...)
errorHandler(err) == RejectWith(handleError(err, <<>>))

\* the error of a failed spawn: code is the system error code
SystemError(code) ==
    [name |-> "Error", code |-> code, status |-> 0,
     message |-> <<"s","p","a","w","n"," ","a","k","a","v","e","c","l","i"," ">> \o code, original |-> Undefined,
     details |-> {}]

\* this.address, the address of the account of the private key
Address == <<"0","x","A","b">>

\* { ...result, transactionHash: txHash }: the own fields of an object are
\* copied, a scalar has none
Spread(result) == IF result.t = "object" THEN result.fields ELSE <<>>

\* a variant of Enrich that returns the hash without the fields of the result
EnrichHashOnly(result, hash) ==
    IF hash \notin {Undefined, Null, <<>>}
    THEN ObjectValue(Put(<<>>, <<"t","r","a","n","s","a","c","t","i","o","n","H","a","s","h">>, hash))
    ELSE result

\* the lines of executeCommand after the lookup returned txHash
Enrich(result, hash) ==
    IF hash \notin {Undefined, Null, <<>>}
    THEN ObjectValue(Put(Spread(result), <<"t","r","a","n","s","a","c","t","i","o","n","H","a","s","h">>, hash))
    ELSE result

\* a variant of executeCommand that looks up the transaction of every
\* operation
executeCommandTracked(kind, track) ==
    /\ spawned' = spawned + 1
    /\ parser' = kind
    /\ trackTransaction' = TRUE
    /\ pc' = "running"
    /\ UNCHANGED <<stdout, stderr, chunks, exitCode, spawnError, promise,
                   uncaught, txHash, outcome, lookup,
                   serverVars, flightVars>>

\* executeCommand(args, parser, trackTransaction): spawn("akavecli", args)
executeCommand(kind, track) ==
    /\ spawned' = spawned + 1
    /\ parser' = kind
    /\ trackTransaction' = track
    /\ pc' = "running"
    /\ UNCHANGED <<stdout, stderr, chunks, exitCode, spawnError, promise,
                   uncaught, txHash, outcome, lookup,
                   serverVars, flightVars>>

\* the call is rejected before executeCommand is reached
RejectCall(e) ==
    /\ outcome' = Rejected(e)
    /\ pc' = "done"
    /\ UNCHANGED <<stdout, stderr, chunks, exitCode, spawnError, spawned,
                   parser, trackTransaction, promise, uncaught, txHash, lookup,
                   serverVars, flightVars>>

Call(name, bucket, file) ==
    /\ pc = "idle"
    /\ op' = name
    /\ bucketName' = bucket
    /\ fileName' = file

createBucket(bucket) ==
    /\ Call("createBucket", bucket, Undefined)
    /\ IF validateInput("bucket", bucket, Undefined) # NoError
       THEN RejectCall(validateInput("bucket", bucket, Undefined))
       ELSE executeCommand("createBucket", TRUE)

deleteBucket(bucket) ==
    /\ Call("deleteBucket", bucket, Undefined)
    /\ executeCommand("deleteBucket", TRUE)

viewBucket(bucket) ==
    /\ Call("viewBucket", bucket, Undefined)
    /\ executeCommand("viewBucket", FALSE)

listBuckets ==
    /\ Call("listBuckets", Undefined, Undefined)
    /\ executeCommand("listBuckets", FALSE)

listFiles(bucket) ==
    /\ Call("listFiles", bucket, Undefined)
    /\ executeCommand("listFiles", FALSE)

getFileInfo(bucket, file) ==
    /\ Call("getFileInfo", bucket, file)
    /\ executeCommand("fileInfo", FALSE)

uploadFile(bucket, file) ==
    /\ Call("uploadFile", bucket, file)
    /\ executeCommand("uploadFile", TRUE)

downloadFile(bucket, file) ==
    /\ Call("downloadFile", bucket, file)
    /\ executeCommand("downloadFile", FALSE)

\* a variant of StreamsOpen for a handler of 'exit', which the child process
\* may emit while its streams still hold data
StreamsOpenAfterExit == pc \in {"running", "done", "lookup", "hung"}

\* the streams of the subprocess may still emit 'data': the outcome is
\* decided by the handler of 'close', which the child process emits after
\* it has ended and its stdio streams have been closed
StreamsOpen == pc = "running"

\* process.stdout.on("data", ...)
StdoutData(data) ==
    /\ StreamsOpen
    /\ chunks < MaxChunks
    /\ stdout' = stdout \o toString(data)
    /\ chunks' = chunks + 1
    /\ UNCHANGED <<op, bucketName, fileName, pc, stderr, exitCode, spawnError,
                   spawned, parser, trackTransaction, promise, uncaught,
                   txHash, outcome, lookup,
                   serverVars, flightVars>>

\* process.stderr.on("data", ...)
StderrData(data) ==
    /\ StreamsOpen
    /\ chunks < MaxChunks
    /\ stderr' = stderr \o toString(data)
    /\ chunks' = chunks + 1
    /\ UNCHANGED <<op, bucketName, fileName, pc, stdout, exitCode, spawnError,
                   spawned, parser, trackTransaction, promise, uncaught,
                   txHash, outcome, lookup,
                   serverVars, flightVars>>

\* an event handler has run with the given effect: the awaited promise
\* settles, and executeCommand goes on after its await. A rejection rejects
\* the call, a result is returned at once unless trackTransaction is set, and
\* when the handler threw before settling the promise the call stays pending
AfterHandler(effect, next) ==
    LET settled == Settle(promise, effect)
    IN  /\ promise' = settled
        /\ uncaught' = IF effect.act = "throw" THEN effect.error ELSE uncaught
        /\ IF promise.state # "pending" THEN
               /\ pc' = next
               /\ outcome' = outcome
           ELSE IF settled.state = "rejected" THEN
               /\ pc' = next
               /\ outcome' = Rejected(settled.error)
           ELSE IF settled.state = "resolved" /\ trackTransaction THEN
               /\ pc' = "lookup"
               /\ outcome' = outcome
           ELSE IF settled.state = "resolved" THEN
               /\ pc' = next
               /\ outcome' = Resolved(settled.value)
           ELSE
               /\ pc' = "hung"
               /\ outcome' = outcome

\* a variant of Close that spawns the subprocess once more when the first
\* one exits with another code than 0
CloseRetry(code) ==
    /\ pc = "running"
    /\ IF code # 0 /\ spawned < 2
       THEN /\ spawned' = spawned + 1
            /\ UNCHANGED <<exitCode, pc, promise, uncaught, outcome>>
       ELSE /\ exitCode' = <<code>>
            /\ AfterHandler(closeHandler(stdout, stderr, code, parser), "done")
            /\ UNCHANGED spawned
    /\ UNCHANGED <<op, bucketName, fileName, stdout, stderr, chunks,
                   spawnError, parser, trackTransaction, txHash, lookup,
                   serverVars, flightVars>>

\* 'close' of a subprocess that ran: code is the exit code, -1 standing for
\* null (the subprocess was killed by a signal)
Close(code) ==
    /\ pc = "running"
    /\ exitCode' = <<code>>
    /\ AfterHandler(closeHandler(stdout, stderr, code, parser), "done")
    /\ UNCHANGED <<op, bucketName, fileName, stdout, stderr, chunks,
                   spawnError, spawned, parser, trackTransaction, txHash, lookup,
                   serverVars, flightVars>>

\* 'error' of a subprocess that could not be spawned
ProcessError(code) ==
    /\ pc = "running"
    /\ chunks = 0
    /\ spawnError' = code
    /\ AfterHandler(errorHandler(SystemError(code)), "failed")
    /\ UNCHANGED <<op, bucketName, fileName, stdout, stderr, chunks, exitCode,
                   spawned, parser, trackTransaction, txHash, lookup,
                   serverVars, flightVars>>

\* 'close' after 'error': the code is the negative error number
CloseAfterError ==
    /\ pc = "failed"
    /\ exitCode' = <<-2>>
    /\ AfterHandler(closeHandler(stdout, stderr, -2, parser), "done")
    /\ UNCHANGED <<op, bucketName, fileName, stdout, stderr, chunks,
                   spawnError, spawned, parser, trackTransaction, txHash, lookup,
                   serverVars, flightVars>>

----------------------------------------------------------------------------
(* The transaction lookup, src/web3-utils.js *)

\* block.transactions.filter(tx => tx.from?.toLowerCase() === address.toLowerCase())
FilterFrom(transactions, address) ==
    SelectSeq(transactions,
              LAMBDA tx : /\ tx.from # Undefined
                          /\ ToLowerCase(tx.from) = ToLowerCase(address))

\* the lookup has returned hash to executeCommand, which returns the result
LookupReturns(hash) ==
    /\ txHash' = hash
    /\ outcome' = Resolved(Enrich(promise.value, hash))
    /\ pc' = "done"

\* the hash of the last transaction of the list, Undefined when it is empty
LastHash(transactions) ==
    IF Len(transactions) > 0 THEN transactions[Len(transactions)].hash
    ELSE Undefined

\* the calls of one attempt: getBlockNumber, then getBlock unless
\* getBlockNumber rejected; rpc.fails names the call that rejects
\* (getBlockNumber or getBlock), "none" when getBlock returns a block of
\* rpc.transactions
Asked(rpc) ==
    [lookup EXCEPT
        !.getBlockNumber = @ + 1,
        !.getBlock = IF rpc.fails = "getBlockNumber" THEN @ ELSE @ + 1,
        !.blocks = IF rpc.fails = "none" THEN Append(@, rpc.transactions) ELSE @,
        !.failed = rpc.fails]

\* getLatestTransaction(this.address) is called and makes the calls of its
\* first attempt
Called(rpc) == [Asked(rpc) EXCEPT !.calls = @ + 1]

\* a variant of FirstAttempt that goes on to the second attempt whatever the
\* first block holds
FirstAttemptNoReturn(rpc) ==
    /\ pc = "lookup"
    /\ IF rpc.fails # "none"
       THEN /\ LookupReturns(Null)
            /\ lookup' = Called(rpc)
       ELSE /\ pc' = "delay"
            /\ lookup' = [Called(rpc) EXCEPT !.delays = @ + 1]
            /\ UNCHANGED <<txHash, outcome>>
    /\ UNCHANGED <<op, bucketName, fileName, stdout, stderr, chunks, exitCode,
                   spawnError, spawned, parser, trackTransaction, promise,
                   uncaught,
                   serverVars, flightVars>>

\* the first attempt, and the delay of 5 seconds that follows it when the
\* block holds no transaction of the address
FirstAttempt(rpc) ==
    /\ pc = "lookup"
    /\ IF rpc.fails # "none"
       THEN /\ LookupReturns(Null)
            /\ lookup' = Called(rpc)
       ELSE IF Len(FilterFrom(rpc.transactions, Address)) > 0
       THEN /\ LookupReturns(LastHash(FilterFrom(rpc.transactions, Address)))
            /\ lookup' = Called(rpc)
       ELSE /\ pc' = "delay"
            /\ lookup' = [Called(rpc) EXCEPT !.delays = @ + 1]
            /\ UNCHANGED <<txHash, outcome>>
    /\ UNCHANGED <<op, bucketName, fileName, stdout, stderr, chunks, exitCode,
                   spawnError, spawned, parser, trackTransaction, promise,
                   uncaught,
                   serverVars, flightVars>>

\* a variant of SecondAttempt without the catch of getLatestTransaction: the
\* error of an RPC call reaches the catch of executeCommand, which returns
\* the result
SecondAttemptUncaught(rpc) ==
    /\ pc = "delay"
    /\ lookup' = Asked(rpc)
    /\ IF rpc.fails # "none"
       THEN /\ outcome' = Resolved(promise.value)
            /\ pc' = "done"
            /\ UNCHANGED txHash
       ELSE IF LastHash(FilterFrom(rpc.transactions, Address)) \notin {Undefined, <<>>}
       THEN LookupReturns(LastHash(FilterFrom(rpc.transactions, Address)))
       ELSE LookupReturns(Null)
    /\ UNCHANGED <<op, bucketName, fileName, stdout, stderr, chunks, exitCode,
                   spawnError, spawned, parser, trackTransaction, promise,
                   uncaught,
                   serverVars, flightVars>>

\* the second attempt, after the delay: hash || null
SecondAttempt(rpc) ==
    /\ pc = "delay"
    /\ lookup' = Asked(rpc)
    /\ IF rpc.fails # "none" THEN LookupReturns(Null)
       ELSE IF LastHash(FilterFrom(rpc.transactions, Address)) \notin {Undefined, <<>>}
       THEN LookupReturns(LastHash(FilterFrom(rpc.transactions, Address)))
       ELSE LookupReturns(Null)
    /\ UNCHANGED <<op, bucketName, fileName, stdout, stderr, chunks, exitCode,
                   spawnError, spawned, parser, trackTransaction, promise,
                   uncaught,
                   serverVars, flightVars>>

----------------------------------------------------------------------------
(* The HTTP layer *)

\* res.sendError(error) of src/src/middleware/response-handler.js: the
\* status of the response
sendError(error) ==
    IF error.status # 0 THEN error.status ELSE HttpStatus.INTERNAL_SERVER_ERROR

\* a JavaScript number: an integer, or NaN
Num(k) == [nan |-> FALSE, n |-> k]

NaN == [nan |-> TRUE, n |-> 0]

\* a >= b, false when either is NaN
GreaterEq(a, b) == ~a.nan /\ ~b.nan /\ a.n >= b.n

\* a > b, false when either is NaN
Greater(a, b) == ~a.nan /\ ~b.nan /\ a.n > b.n

\* end - start + 1
Span(start, end) ==
    IF start.nan \/ end.nan THEN NaN ELSE Num(end.n - start.n + 1)

DigitChars == <<"0", "1", "2", "3", "4", "5", "6", "7", "8", "9">>

DigitValue(c) == (CHOOSE i \in 1..10 : DigitChars[i] = c) - 1

\* the decimal digits of a natural number
RECURSIVE NatToString(_)
NatToString(k) ==
    IF k < 10 THEN <<DigitChars[k + 1]>>
    ELSE NatToString(k \div 10) \o <<DigitChars[(k % 10) + 1]>>

\* String(x) of a number, as a template literal and setHeader write it
NumberToString(x) ==
    IF x.nan THEN <<"N","a","N">>
    ELSE IF x.n < 0 THEN <<"-">> \o NatToString(0 - x.n)
    ELSE NatToString(x.n)

\* the value of the longest prefix of digits of s, after acc
RECURSIVE ParseDigits(_, _)
ParseDigits(s, acc) ==
    IF s # <<>> /\ Head(s) \in Digits
    THEN ParseDigits(Tail(s), acc * 10 + DigitValue(Head(s)))
    ELSE acc

\* parseInt(s, 10): leading white space, an optional sign, then the longest
\* prefix of digits; NaN when there is no digit
parseInt(s) ==
    LET t == TrimStart(s)
        signed == t # <<>> /\ Head(t) \in {"+", "-"}
        u == IF signed THEN Tail(t) ELSE t
    IN  IF u = <<>> \/ Head(u) \notin Digits THEN NaN
        ELSE IF signed /\ Head(t) = "-" THEN Num(0 - ParseDigits(u, 0))
        ELSE Num(ParseDigits(u, 0))

\* range.replace(/bytes=/, "").split("-")
RangeParts(range) ==
    LET i == IndexOf(range, <<"b","y","t","e","s","=">>)
        rest == IF i = -1 THEN range
                ELSE SubSeq(range, 1, i) \o Substring(range, i + 6)
    IN  Split(rest, <<"-">>)

\* a variant of EndOf that takes the size of the file for an omitted end
EndOfSize(parts, size) ==
    IF Len(parts) >= 2 /\ parts[2] # <<>> THEN parseInt(parts[2])
    ELSE Num(size)

\* parts[1] ? parseInt(parts[1], 10) : stats.size - 1
EndOf(parts, size) ==
    IF Len(parts) >= 2 /\ parts[2] # <<>> THEN parseInt(parts[2])
    ELSE Num(size - 1)

\* fs.createReadStream(path, {start, end}) throws unless start and end are
\* integers from 0 on with start <= end
createReadStreamThrows(start, end) ==
    \/ start.nan \/ end.nan
    \/ start.n < 0 \/ end.n < 0
    \/ start.n > end.n

\* the body of a JSON response: the success field ("absent" when there is
\* none), and the error field, a string or an object whose message is text
Json(success, shape, text) == [success |-> success, shape |-> shape, text |-> text]

NoJson == Json("absent", "none", <<>>)

RangeNotSatisfiable == Json("false", "string", <<"R","e","q","u","e","s","t","e","d"," ","r","a","n","g","e"," ","n","o","t"," ","s","a","t","i","s","f","i","a","b","l","e">>)

\* a response nothing was written to: sent counts the responses sent, late
\* the writes attempted after one was sent
NoResponse ==
    [sent |-> 0, late |-> 0, status |-> 200, acceptRanges |-> Undefined,
     contentRange |-> Undefined, contentLength |-> Undefined,
     json |-> NoJson, body |-> <<>>]

\* res.status(status).json(body) on the response res
SendJson(res, status, body) ==
    IF res.sent > 0 THEN [res EXCEPT !.late = @ + 1]
    ELSE [res EXCEPT !.sent = 1, !.status = status, !.json = body]

\* res.sendError(error) on the response res
SendErrorTo(res, error) ==
    SendJson(res, sendError(error), Json("false", "object", error.message))

\* fileStream.pipe(res) of the bytes first..last (0-based) of the file
Pipe(res, content, first, last) ==
    [res EXCEPT !.sent = 1, !.body = SubSeq(content, first + 1, last + 1)]

\* `bytes ${start}-${end}/${stats.size}`
ContentRange(start, end, size) ==
    <<"b","y","t","e","s"," ">> \o NumberToString(start) \o <<"-">> \o NumberToString(end)
        \o <<"/">> \o NatToString(size)

\* the headers every download sets before it looks at the Range header
CommonHeaders(res) == [res EXCEPT !.acceptRanges = <<"b","y","t","e","s">>]

\* the whole file with Content-Length stats.size, the status left as it is
FullDownload(res, content) ==
    Pipe([res EXCEPT !.contentLength = NatToString(Len(content))],
         content, 0, Len(content) - 1)

\* status 206 with Content-Range and Content-Length
Partial(res, start, end, size) ==
    [res EXCEPT !.status = 206,
                !.contentRange = ContentRange(start, end, size),
                !.contentLength = NumberToString(Span(start, end))]

\* the range handling of the download route of server.js
downloadRangeJs(range, content) ==
    LET size == Len(content)
        res == CommonHeaders(NoResponse)
        parts == RangeParts(range)
        start == parseInt(parts[1])
        end == EndOf(parts, size)
    IN  IF range # Undefined /\ range # <<>>
        THEN IF GreaterEq(start, Num(size)) \/ GreaterEq(end, Num(size))
             THEN SendJson(res, 416, RangeNotSatisfiable)
             ELSE IF createReadStreamThrows(start, end)
             THEN FullDownload(Partial(res, start, end, size), content)
             ELSE Pipe(Partial(res, start, end, size), content, start.n, end.n)
        ELSE FullDownload(res, content)

\* the range handling of the download route of server.ts
downloadRangeTs(range, content) ==
    LET size == Len(content)
        res == CommonHeaders(NoResponse)
        parts == RangeParts(range)
        start == parseInt(parts[1])
        end == EndOf(parts, size)
    IN  IF range # Undefined /\ StartsWith(range, <<"b","y","t","e","s","=">>)
        THEN IF \/ start.nan \/ end.nan
                \/ GreaterEq(start, Num(size)) \/ GreaterEq(end, Num(size))
                \/ Greater(start, end)
             THEN SendJson(res, 416, RangeNotSatisfiable)
             ELSE Pipe(Partial(res, start, end, size), content, start.n, end.n)
        ELSE FullDownload(res, content)

\* POST /buckets/:bucketName/files arrives: with a file in the request the
\* handler creates its temporary directory (mkdtemp succeeds or fails);
\* without one server.js uploads the path of the request body and
\* server.ts answers 400
UploadRequest(h, buffered, made) ==
    /\ spc = "idle"
    /\ request' = [route |-> "upload", handler |-> h, buffered |-> buffered,
                   range |-> Undefined]
    /\ IF buffered
       THEN IF made
            THEN /\ disk' = [disk EXCEPT !.tempDir = TRUE]
                 /\ spc' = "writing"
                 /\ UNCHANGED response
            ELSE /\ response' =
                     IF h = "server.js"
                     THEN SendErrorTo(response, NewError(<<"E","A","C","C","E","S">>))
                     ELSE SendJson(response, 500,
                                   Json("absent", "string", <<"F","a","i","l","e","d"," ","t","o"," ","u","p","l","o","a","d"," ","f","i","l","e">>))
                 /\ spc' = "done"
                 /\ UNCHANGED disk
       ELSE IF h = "server.js"
            THEN /\ spc' = "uploading"
                 /\ UNCHANGED <<disk, response>>
            ELSE /\ response' = SendJson(response, 400,
                                         Json("absent", "string", <<"N","o"," ","f","i","l","e"," ","u","p","l","o","a","d","e","d">>))
                 /\ spc' = "done"
                 /\ UNCHANGED disk
    /\ UNCHANGED <<clientVars, flightVars>>

\* fs.writeFile(tempFilePath, buffer) settles: server.js removes the
\* directory in its finally block, server.ts goes to its catch block
WriteFile(ok) ==
    /\ spc = "writing"
    /\ IF ok
       THEN /\ disk' = [disk EXCEPT !.tempFile = TRUE]
            /\ spc' = "uploading"
            /\ UNCHANGED response
       ELSE /\ disk' = IF request.handler = "server.js"
                       THEN [disk EXCEPT !.tempDir = FALSE, !.tempFile = FALSE]
                       ELSE disk
            /\ response' =
                IF request.handler = "server.js"
                THEN SendErrorTo(response, NewError(<<"E","N","O","S","P","C">>))
                ELSE SendJson(response, 500,
                              Json("absent", "string", <<"F","a","i","l","e","d"," ","t","o"," ","u","p","l","o","a","d"," ","f","i","l","e">>))
            /\ spc' = "done"
    /\ UNCHANGED <<clientVars, flightVars, request>>

\* client.uploadFile settles: server.js removes the directory in its finally
\* block and answers; server.ts removes the file and the directory after a
\* resolved upload only
UploadSettles(settled) ==
    /\ spc = "uploading"
    /\ IF request.handler = "server.js"
       THEN /\ disk' = IF request.buffered
                       THEN [disk EXCEPT !.tempDir = FALSE, !.tempFile = FALSE]
                       ELSE disk
            /\ response' =
                IF settled.state = "resolved"
                THEN SendJson(response, HttpStatus.OK, Json("true", "none", <<>>))
                ELSE SendErrorTo(response, settled.error)
       ELSE IF settled.state = "resolved"
            THEN /\ disk' = [disk EXCEPT !.tempDir = FALSE, !.tempFile = FALSE]
                 /\ response' = SendJson(response, 200, NoJson)
            ELSE /\ response' =
                     SendJson(response, 500,
                              Json("absent", "string", <<"F","a","i","l","e","d"," ","t","o"," ","u","p","l","o","a","d"," ","f","i","l","e">>))
                 /\ UNCHANGED disk
    /\ spc' = "done"
    /\ UNCHANGED <<clientVars, flightVars, request>>

\* GET /buckets/:bucketName/files/:fileName/download arrives, with or
\* without a Range header
DownloadRequest(h, range) ==
    /\ spc = "idle"
    /\ request' = [route |-> "download", handler |-> h, buffered |-> FALSE,
                   range |-> range]
    /\ spc' = "downloading"
    /\ UNCHANGED <<clientVars, flightVars, disk, response>>

\* client.downloadFile settles: resolved, it has left a file in the download
\* directory (readable, unreadable, or missing under the normalised name);
\* rejected, the handler answers with the error
DownloadSettles(settled, file, content) ==
    /\ spc = "downloading"
    /\ IF settled.state = "resolved"
       THEN /\ disk' = [disk EXCEPT !.file = file,
                                    !.content = IF file = "readable"
                                                THEN content ELSE <<>>]
            /\ spc' = "checking"
            /\ UNCHANGED response
       ELSE /\ response' =
                IF request.handler = "server.js"
                THEN SendErrorTo(response, settled.error)
                ELSE SendJson(response, 500,
                              Json("false", "string", settled.error.message))
            /\ spc' = "done"
            /\ UNCHANGED disk
    /\ UNCHANGED <<clientVars, flightVars, request>>

\* fs.access, fs.stat, the headers and the stream of the download route.
\* When the file cannot be read server.js answers with the error and goes
\* on: fs.stat or setHeader then throws and the catch block answers again;
\* server.ts throws to its catch block
Serve ==
    /\ spc = "checking"
    /\ response' =
        IF disk.file = "readable"
        THEN IF request.handler = "server.js"
             THEN downloadRangeJs(request.range, disk.content)
             ELSE downloadRangeTs(request.range, disk.content)
        ELSE IF request.handler = "server.js"
             THEN SendErrorTo(SendErrorTo(response, NewError(<<"E","N","O","E","N","T">>)),
                              NewError(<<"E","N","O","E","N","T">>))
             ELSE SendJson(response, 500,
                           Json("false", "string",
                                <<"F","i","l","e"," ","d","o","w","n","l","o","a","d"," ","f","a","i","l","e","d"," ","o","r"," ","f","i","l","e"," ","i","s"," ","n","o","t"," ","r","e","a","d","a","b","l","e">>))
    /\ spc' = "done"
    /\ UNCHANGED <<clientVars, flightVars, request, disk>>

\* GET /buckets/:bucketName/files arrives at server.js
ListFilesRequest ==
    /\ spc = "idle"
    /\ request' = [route |-> "listFiles", handler |-> "server.js",
                   buffered |-> FALSE, range |-> Undefined]
    /\ spc' = "listing"
    /\ UNCHANGED <<clientVars, flightVars, disk, response>>

\* client.listFiles settles: resolved, the handler answers with the result;
\* rejected, it answers with the error and then calls next, which is not a
\* parameter of the handler: the call throws and nothing more is written
ListFilesSettles(settled) ==
    /\ spc = "listing"
    /\ response' =
        IF settled.state = "resolved"
        THEN SendJson(response, 200, Json("true", "none", <<>>))
        ELSE SendErrorTo(response, settled.error)
    /\ spc' = "done"
    /\ UNCHANGED <<clientVars, flightVars, request, disk>>

----------------------------------------------------------------------------
(* The inputs *)

\* what the subprocess of each parser kind writes to stdout, in chunks
RecordPrefix(kind) ==
    CASE kind = "createBucket" -> <<"B","u","c","k","e","t"," ","c","r","e","a","t","e","d",":">>
      [] kind = "listBuckets" -> <<"B","u","c","k","e","t",":">>
      [] kind = "viewBucket" -> <<"B","u","c","k","e","t",":">>
      [] kind = "deleteBucket" -> <<"B","u","c","k","e","t"," ","d","e","l","e","t","e","d",":">>
      [] kind = "listFiles" -> <<"F","i","l","e",":">>
      [] kind = "fileInfo" -> <<"F","i","l","e",":">>
      [] kind = "uploadFile" -> <<"F","i","l","e"," ","u","p","l","o","a","d","e","d"," ","s","u","c","c","e","s","s","f","u","l","l","y",":">>
      [] OTHER -> <<"F","i","l","e"," ","d","o","w","n","l","o","a","d","e","d",":">>

\* chunks of every kind: the record prefix, a pair, a pair without "=" and a
\* JSON number
CommonChunks(kind) == {RecordPrefix(kind), <<" ","N","a","m","e","=","a","b">>, <<","," ","O","w","n","e","r">>, <<"1","2">>}

\* chunks of the single-record kinds: two pairs, a pair that follows the
\* prefix without a space, and a pair whose value holds "="
RecordChunks == {<<" ","N","a","m","e","=","m","y","b","u","c","k","e","t",","," ","O","w","n","e","r","=","0","x","a","b","c">>, <<"N","a","m","e","=","a","b">>, <<" ","H","a","s","h","=","a","b","=","c","d">>}

\* chunks of the list kinds: a record line, a line without the prefix
\* followed by a record line, and a line without the prefix
LineChunks(kind) ==
    {RecordPrefix(kind) \o <<" ","N","a","m","e","=","a","b","\n">>,
     <<"n","o","i","s","e","\n">> \o RecordPrefix(kind) \o <<" ","N","a","m","e","=","c","d","\n">>,
     <<"n","o","i","s","e","\n">>}

\* chunks of the deletion kind: the literal, bare and as a JSON string, and
\* a hex code of the registry
DeletionChunks ==
    {<<"B","u","c","k","e","t","N","o","n","e","m","p","t","y">>, <<"\"","B","u","c","k","e","t","N","o","n","e","m","p","t","y","\"">>, SDKErrors.BUCKET_NONEXISTS}

\* chunks of the upload kind: two lines holding the marker, and the literal,
\* bare and as a JSON string
UploadChunks ==
    {<<"u","p",":"," ","F","i","l","e"," ","u","p","l","o","a","d","e","d"," ","s","u","c","c","e","s","s","f","u","l","l","y",":"," ","N","a","m","e","=","a","b","\n">>,
     <<"F","i","l","e"," ","u","p","l","o","a","d","e","d"," ","s","u","c","c","e","s","s","f","u","l","l","y",":"," ","N","a","m","e","=","c","d","\n">>,
     <<"F","i","l","e","F","u","l","l","y","U","p","l","o","a","d","e","d">>, <<"\"","F","i","l","e","F","u","l","l","y","U","p","l","o","a","d","e","d","\"">>}

\* what a subprocess writes to stdout, in chunks
OutChunks(kind) ==
    CommonChunks(kind) \cup
    (CASE kind \in {"createBucket", "viewBucket", "fileInfo"} -> RecordChunks
       [] kind \in {"listBuckets", "listFiles"} -> LineChunks(kind)
       [] kind = "deleteBucket" -> DeletionChunks
       [] kind = "uploadFile" -> UploadChunks
       [] OTHER -> {})

\* what a subprocess writes to stderr, in chunks
ErrChunks ==
    {SDKErrors.FILE_FULLY_UPLOADED, SDKErrors.BUCKET_NONEXISTS,
     SDKErrors.FILE_NONEMPTY, <<"0","x","d","e","a","d","b","e","e","f">>,
     <<"B","u","c","k","e","t","N","o","n","e","m","p","t","y">>, <<"F","i","l","e","F","u","l","l","y","U","p","l","o","a","d","e","d">>, <<"w","a","r","n",":"," ">>}

\* 0 and 1, and -1 for null
ExitCodes == {0, 1, -1}

\* the system error codes of a failed spawn
SpawnErrors == {<<"E","N","O","E","N","T">>, <<"E","A","C","C","E","S">>}

ValidNames == {<<"b">>}

NameInputs == {Undefined, NotAString, <<>>, <<" ">>, <<"b">>}

\* the transactions a block may hold
TxPool ==
    {[from |-> <<"0","x","a","b">>, hash |-> <<"0","x","1">>],
     [from |-> <<"0","x","A","B">>, hash |-> <<"0","x","2">>],
     [from |-> <<"0","x","c","d">>, hash |-> <<"0","x","3">>],
     [from |-> Undefined, hash |-> <<"0","x","4">>]}

Blocks == UNION {[1..n -> TxPool] : n \in 0..MaxTxs}

RpcResults ==
    {[fails |-> f, transactions |-> <<>>] : f \in {"getBlockNumber", "getBlock"}}
    \cup {[fails |-> "none", transactions |-> b] : b \in Blocks}

\* the handlers of the two servers of the repository
Handlers == {"server.js", "server.ts"}

\* what a file in the download directory may hold
FileContents == UNION {[1..n -> {"x", "y"}] : n \in 0..MaxSize}

\* Range headers of the form bytes=start-end and bytes=start-
ByteRange(start, end) ==
    <<"b","y","t","e","s","=">> \o NatToString(start) \o <<"-">> \o NatToString(end)

OpenRange(start) == <<"b","y","t","e","s","=">> \o NatToString(start) \o <<"-">>

\* the Range header of a request: none, byte ranges within and beyond the
\* file, and headers that are not byte ranges
RangeHeaders ==
    {Undefined, <<>>, <<"i","n","v","a","l","i","d","-","r","a","n","g","e">>, <<"b","y","t","e","s","=","a","-","b">>, <<"b","y","t","e","s","=","-","1">>, <<"b","y","t","e","s","=","1","-","x">>}
    \cup {ByteRange(s, e) : s, e \in 0..MaxSize}
    \cup {OpenRange(s) : s \in 0..MaxSize}

\* how a call of the client settles for a handler
ClientSettles ==
    {Resolved(NoValue), Rejected(NewError(<<"C","o","m","m","a","n","d"," ","f","a","i","l","e","d">>)),
     Rejected([NewError(<<"B","u","c","k","e","t"," ","n","o","t"," ","f","o","u","n","d">>) EXCEPT !.status = 404])}

FileStates == {"readable", "unreadable", "missing"}

----------------------------------------------------------------------------
(* Calls of executeCommand in flight at once, src/logger.js *)

\* the calls that may be in flight at once
Callers == {"first", "second"}

\* a variant of BufferOf with one pair of buffers for all the calls
BufferOfShared(call) == "first"

\* the buffers the data handlers and the close handler of a call use: let
\* stdout = "" and let stderr = "" are declared inside the executor of the
\* promise, so that each call has its own
BufferOf(call) == call

\* a call that has not started: the bytes its subprocess has written to
\* stdout and to stderr, the exit code and the promise of the call
NoCall ==
    [pc |-> "idle", kind |-> "default", out |-> <<>>, err |-> <<>>,
     chunks |-> 0, code |-> <<>>, promise |-> Pending]

NoBuffers == [stdout |-> <<>>, stderr |-> <<>>]

\* executeCommand(args, parser) of one call: spawn, and the two buffers
Spawn(call, kind) ==
    /\ flight[call].pc = "idle"
    /\ flight' = [flight EXCEPT ![call] = [@ EXCEPT !.pc = "running", !.kind = kind]]
    /\ buffers' = [buffers EXCEPT ![BufferOf(call)] = NoBuffers]
    /\ UNCHANGED <<clientVars, serverVars>>

\* process.stdout.on("data", ...) of one call
FlightStdout(call, data) ==
    /\ flight[call].pc = "running"
    /\ flight[call].chunks < MaxChunks
    /\ flight' = [flight EXCEPT ![call] =
                     [@ EXCEPT !.out = @ \o data, !.chunks = @ + 1]]
    /\ buffers' = [buffers EXCEPT ![BufferOf(call)].stdout = @ \o toString(data)]
    /\ UNCHANGED <<clientVars, serverVars>>

\* process.stderr.on("data", ...) of one call
FlightStderr(call, data) ==
    /\ flight[call].pc = "running"
    /\ flight[call].chunks < MaxChunks
    /\ flight' = [flight EXCEPT ![call] =
                     [@ EXCEPT !.err = @ \o data, !.chunks = @ + 1]]
    /\ buffers' = [buffers EXCEPT ![BufferOf(call)].stderr = @ \o toString(data)]
    /\ UNCHANGED <<clientVars, serverVars>>

\* process.on("close", ...) of one call
FlightClose(call, code) ==
    /\ flight[call].pc = "running"
    /\ flight' = [flight EXCEPT ![call] =
                     [@ EXCEPT !.pc = "closed",
                               !.code = <<code>>,
                               !.promise =
                                   Settle(Pending,
                                          closeHandler(buffers[BufferOf(call)].stdout,
                                                       buffers[BufferOf(call)].stderr,
                                                       code, flight[call].kind))]]
    /\ UNCHANGED <<clientVars, serverVars, buffers>>

\* the parser kinds of the calls in flight
FlightKinds == {"viewBucket", "listFiles"}

\* what their subprocesses write to stdout and to stderr, in chunks
FlightOutChunks == {<<"B","u","c","k","e","t",":"," ","N","a","m","e","=","a","b">>, <<"F","i","l","e",":"," ","N","a","m","e","=","c","d","\n">>}

FlightErrChunks == {SDKErrors.BUCKET_NONEXISTS}

\* chunks that end inside a literal, a hex code or a character: the text
\* 'Bucket: Name=' and U+00E9 whole and cut between its two bytes,
\* 'BucketNonempty' and 0x938a92b7 whole and cut in two
SplitOutChunks ==
    {<<"B","u","c","k","e","t",":"," ","N","a","m","e","=">> \o <<"C3", "A9">>, <<"B","u","c","k","e","t",":"," ","N","a","m","e","=">> \o <<"C3">>,
     <<"A9">>, <<","," ","O","w","n","e","r","=","a","b">>}

SplitErrChunks ==
    {<<"B","u","c","k","e","t","N","o","n","e","m","p","t","y">>, <<"B","u","c","k","e","t">>, <<"N","o","n","e","m","p","t","y">>,
     SDKErrors.BUCKET_NONEXISTS, <<"0","x","9","3","8","a">>, <<"9","2","b","7">>}

----------------------------------------------------------------------------
(* The specifications *)

Init ==
    /\ op = "none"
    /\ bucketName = Undefined
    /\ fileName = Undefined
    /\ pc = "idle"
    /\ stdout = <<>>
    /\ stderr = <<>>
    /\ chunks = 0
    /\ exitCode = <<>>
    /\ spawnError = Undefined
    /\ spawned = 0
    /\ parser = "default"
    /\ trackTransaction = FALSE
    /\ promise = Pending
    /\ uncaught = NoError
    /\ txHash = Undefined
    /\ outcome = Pending
    /\ lookup = [calls |-> 0, getBlockNumber |-> 0, getBlock |-> 0,
                 delays |-> 0, blocks |-> <<>>, failed |-> "none"]
    /\ request = [route |-> "none", handler |-> "none", buffered |-> FALSE,
                  range |-> Undefined]
    /\ disk = [tempDir |-> FALSE, tempFile |-> FALSE, file |-> "missing",
               content |-> <<>>]
    /\ response = NoResponse
    /\ spc = "idle"
    /\ flight = [call \in Callers |-> NoCall]
    /\ buffers = [call \in Callers |-> NoBuffers]

\* one call of a client operation with well-formed names, and the events of
\* its subprocess and of the transaction lookup
Next ==
    \/ \E b \in ValidNames : createBucket(b)
    \/ \E b \in ValidNames : deleteBucket(b)
    \/ \E b \in ValidNames : viewBucket(b)
    \/ listBuckets
    \/ \E b \in ValidNames : listFiles(b)
    \/ \E b \in ValidNames, f \in ValidNames : getFileInfo(b, f)
    \/ \E b \in ValidNames, f \in ValidNames : uploadFile(b, f)
    \/ \E b \in ValidNames, f \in ValidNames : downloadFile(b, f)
    \/ \E data \in OutChunks(parser) : StdoutData(data)
    \/ \E data \in ErrChunks : StderrData(data)
    \/ \E code \in ExitCodes : Close(code)
    \/ \E code \in SpawnErrors : ProcessError(code)
    \/ CloseAfterError
    \/ \E rpc \in RpcResults : FirstAttempt(rpc)
    \/ \E rpc \in RpcResults : SecondAttempt(rpc)

Spec == Init /\ [][Next]_vars

\* one call of a client operation with any names, its subprocess writing
\* nothing
NextValidation ==
    \/ \E b \in NameInputs : createBucket(b)
    \/ \E b \in NameInputs : deleteBucket(b)
    \/ \E b \in NameInputs : viewBucket(b)
    \/ listBuckets
    \/ \E b \in NameInputs : listFiles(b)
    \/ \E b \in NameInputs, f \in NameInputs : getFileInfo(b, f)
    \/ \E b \in NameInputs, f \in NameInputs : uploadFile(b, f)
    \/ \E b \in NameInputs, f \in NameInputs : downloadFile(b, f)
    \/ \E code \in ExitCodes : Close(code)

SpecValidation == Init /\ [][NextValidation]_vars

\* one request to the upload or the download route of either server, or to
\* the route of server.js that lists the files of a bucket
NextServer ==
    \/ \E h \in Handlers, buffered \in BOOLEAN, made \in BOOLEAN :
           UploadRequest(h, buffered, made)
    \/ \E ok \in BOOLEAN : WriteFile(ok)
    \/ \E settled \in ClientSettles : UploadSettles(settled)
    \/ \E h \in Handlers, range \in RangeHeaders : DownloadRequest(h, range)
    \/ \E settled \in ClientSettles, file \in FileStates, content \in FileContents :
           DownloadSettles(settled, file, content)
    \/ Serve
    \/ ListFilesRequest
    \/ \E settled \in ClientSettles : ListFilesSettles(settled)

SpecServer == Init /\ [][NextServer]_vars

\* calls of executeCommand in flight at once, and the events of their
\* subprocesses in any order
NextFlight ==
    \/ \E call \in Callers, kind \in FlightKinds : Spawn(call, kind)
    \/ \E call \in Callers, data \in FlightOutChunks : FlightStdout(call, data)
    \/ \E call \in Callers, data \in FlightErrChunks : FlightStderr(call, data)
    \/ \E call \in Callers, code \in {0, 1} : FlightClose(call, code)

SpecFlight == Init /\ [][NextFlight]_vars

\* one call of executeCommand whose subprocess writes its text in chunks of
\* any cut
NextChunks ==
    \/ Spawn("first", "viewBucket")
    \/ \E data \in SplitOutChunks : FlightStdout("first", data)
    \/ \E data \in SplitErrChunks : FlightStderr("first", data)
    \/ \E code \in {0, 1} : FlightClose("first", code)

SpecChunks == Init /\ [][NextChunks]_vars

----------------------------------------------------------------------------
(* What the claims speak of *)

\* the close handler of a subprocess that was spawned has run
Closed == exitCode # <<>> /\ spawnError = Undefined

\* the text the close handler calls output
CombinedOutput == Trim(stdout \o stderr)

\* an 8-hex-digit code, 0x and eight hex digits, starts at position i of s
HexCodeAt(s, i) ==
    /\ i + 9 <= Len(s)
    /\ s[i] = "0"
    /\ s[i + 1] = "x"
    /\ \A k \in 2..9 : s[i + k] \in HexDigits

HasHexCode(s) == \E i \in 1..Len(s) : HexCodeAt(s, i)

\* c is the first 8-hex-digit code of s
FirstHexCode(s, c) ==
    \E i \in 1..Len(s) :
        /\ HexCodeAt(s, i)
        /\ SubSeq(s, i, i + 9) = c
        /\ \A j \in 1..(i - 1) : ~HexCodeAt(s, j)

\* the hex codes the registry names
RegistryCodes == {SDKErrors[k] : k \in DOMAIN SDKErrors}

\* the call is rejected with the classified error of the given code, status
\* and message, and sendError answers with that status
RejectedWith(code, status, message) ==
    /\ outcome.state = "rejected"
    /\ outcome.error.name = "AkaveError"
    /\ outcome.error.code = code
    /\ outcome.error.status = status
    /\ outcome.error.message = message
    /\ sendError(outcome.error) = status

TakesBucket(o) ==
    o \in {"createBucket", "deleteBucket", "viewBucket", "listFiles",
           "getFileInfo", "uploadFile", "downloadFile"}

TakesFile(o) == o \in {"getFileInfo", "uploadFile", "downloadFile"}

\* the text after the record prefix holds a pair without "="
PairWithoutEquals(output, prefix) ==
    LET pairs == Split(Trim(Substring(output, Len(prefix))), <<","," ">>)
    IN  \E i \in DOMAIN pairs : ~Includes(pairs[i], <<"=">>)

----------------------------------------------------------------------------
(* The claims *)

\* C1, as stated: once the subprocess has closed, whatever the parser kind
\* and the exit code, every registry hex code held by stderr is the code of
\* the classified error the call rejects with, with the registry's status
C1_AnyRegistryCode ==
    Closed =>
        \A c \in RegistryCodes :
            Includes(stderr, c) =>
                /\ outcome.state = "rejected"
                /\ outcome.error.code = c
                /\ outcome.error.status = StatusOf(c)

\* C1, the part the executor keeps: once the subprocess has closed, whatever
\* the parser kind and the exit code, if the first 8-hex-digit code of stderr
\* has a status in the registry, the call rejects with the classified error
\* of that code, that status and the registry's message (0xd96b03b1: 409,
\* 'File is already fully uploaded')
C1_FirstRegistryCode ==
    Closed =>
        \A c \in Keys(ErrorHttpStatus) :
            FirstHexCode(stderr, c) =>
                /\ RejectedWith(c, StatusOf(c), MessageOf(c))
                /\ c = <<"0","x","d","9","6","b","0","3","b","1">> =>
                       /\ outcome.error.status = 409
                       /\ outcome.error.message = <<"F","i","l","e"," ","i","s"," ","a","l","r","e","a","d","y"," ","f","u","l","l","y"," ","u","p","l","o","a","d","e","d">>

\* C1: a subprocess that wrote to stdout and exited with 0 while stderr held
\* 0xd96b03b1 first, the call being rejected with that code
C1_FirstRegistryCodeReached ==
    /\ Closed
    /\ exitCode = <<0>>
    /\ stdout # <<>>
    /\ FirstHexCode(stderr, <<"0","x","d","9","6","b","0","3","b","1">>)
    /\ outcome.state = "rejected"
    /\ outcome.error.code = <<"0","x","d","9","6","b","0","3","b","1">>

\* C2, as stated: when stderr holds no hex code, 'BucketNonempty' in stderr
\* gives the bucket-not-empty error with status 400 and 'FileFullyUploaded'
\* in stderr gives the file-fully-uploaded error with status 409, whatever
\* the exit code
C2_EitherLiteral ==
    (Closed /\ ~HasHexCode(stderr)) =>
        /\ Includes(stderr, <<"B","u","c","k","e","t","N","o","n","e","m","p","t","y">>) =>
               RejectedWith(SDKErrors.BUCKET_NONEMPTY, 400, <<"B","u","c","k","e","t"," ","i","s"," ","n","o","t"," ","e","m","p","t","y">>)
        /\ Includes(stderr, <<"F","i","l","e","F","u","l","l","y","U","p","l","o","a","d","e","d">>) =>
               RejectedWith(SDKErrors.FILE_FULLY_UPLOADED, 409,
                            <<"F","i","l","e"," ","i","s"," ","a","l","r","e","a","d","y"," ","f","u","l","l","y"," ","u","p","l","o","a","d","e","d">>)

\* C2, amended: when stderr holds no hex code, 'BucketNonempty' in stderr
\* gives the bucket-not-empty error with status 400, and 'FileFullyUploaded'
\* in a stderr without 'BucketNonempty' gives the file-fully-uploaded error
\* with status 409, whatever the exit code; sendError answers 400 and 409
C2_LiteralMapping ==
    (Closed /\ ~HasHexCode(stderr)) =>
        /\ Includes(stderr, <<"B","u","c","k","e","t","N","o","n","e","m","p","t","y">>) =>
               RejectedWith(SDKErrors.BUCKET_NONEMPTY, 400, <<"B","u","c","k","e","t"," ","i","s"," ","n","o","t"," ","e","m","p","t","y">>)
        /\ (/\ Includes(stderr, <<"F","i","l","e","F","u","l","l","y","U","p","l","o","a","d","e","d">>)
            /\ ~Includes(stderr, <<"B","u","c","k","e","t","N","o","n","e","m","p","t","y">>)) =>
               RejectedWith(SDKErrors.FILE_FULLY_UPLOADED, 409,
                            <<"F","i","l","e"," ","i","s"," ","a","l","r","e","a","d","y"," ","f","u","l","l","y"," ","u","p","l","o","a","d","e","d">>)

\* C2: an upload whose subprocess exited with 0 and wrote 'FileFullyUploaded'
\* and no hex code to stderr, rejected with status 409
C2_Witness ==
    /\ Closed
    /\ op = "uploadFile"
    /\ exitCode = <<0>>
    /\ ~HasHexCode(stderr)
    /\ Includes(stderr, <<"F","i","l","e","F","u","l","l","y","U","p","l","o","a","d","e","d">>)
    /\ ~Includes(stderr, <<"B","u","c","k","e","t","N","o","n","e","m","p","t","y">>)
    /\ outcome.state = "rejected"
    /\ outcome.error.status = 409

\* C3, as stated: deleteBucket whose subprocess wrote 'BucketNonempty' to
\* stderr and exited with 1 rejects with the code "BUCKET_NONEMPTY" and the
\* status 400
C3_SymbolicCode ==
    (/\ op = "deleteBucket"
     /\ Closed
     /\ exitCode = <<1>>
     /\ Includes(stderr, <<"B","u","c","k","e","t","N","o","n","e","m","p","t","y">>)) =>
        /\ outcome.state = "rejected"
        /\ outcome.error.code = <<"B","U","C","K","E","T","_","N","O","N","E","M","P","T","Y">>
        /\ outcome.error.status = 400

\* C3, amended: deleteBucket whose subprocess wrote 'BucketNonempty' and no
\* hex code to stderr and exited with 1 rejects with the code 0x89fddc00, the
\* registry's value of BUCKET_NONEMPTY, and the status 400
C3_RegistryCode ==
    (/\ op = "deleteBucket"
     /\ Closed
     /\ exitCode = <<1>>
     /\ Includes(stderr, <<"B","u","c","k","e","t","N","o","n","e","m","p","t","y">>)
     /\ ~HasHexCode(stderr)) =>
        /\ outcome.state = "rejected"
        /\ outcome.error.name = "AkaveError"
        /\ outcome.error.code = <<"0","x","8","9","f","d","d","c","0","0">>
        /\ outcome.error.status = 400

\* C3: such a deleteBucket, rejected with 0x89fddc00
C3_Witness ==
    /\ op = "deleteBucket"
    /\ Closed
    /\ exitCode = <<1>>
    /\ Includes(stderr, <<"B","u","c","k","e","t","N","o","n","e","m","p","t","y">>)
    /\ outcome.state = "rejected"
    /\ outcome.error.code = <<"0","x","8","9","f","d","d","c","0","0">>

\* C4, as stated: every failure to spawn rejects the call with SYSTEM_ERROR
\* and the status 500
C4_EverySpawnFailure ==
    spawnError # Undefined =>
        /\ outcome.state = "rejected"
        /\ outcome.error.code = SYSTEM_ERROR
        /\ outcome.error.status = 500

\* C4, amended: a failure to spawn with the system code ENOENT (binary not
\* found) rejects the call with SYSTEM_ERROR and the status 500, which no
\* subprocess output or exit code produces; any other failure to spawn
\* rejects it with UNKNOWN_ERROR, the status 500 and the system's message
C4_CommandNotFound ==
    /\ spawnError = <<"E","N","O","E","N","T">> =>
           RejectedWith(SYSTEM_ERROR, 500,
               <<"C","o","m","m","a","n","d"," ","n","o","t"," ","f","o","u","n","d",":"," ","a","k","a","v","e","c","l","i","."," ","P","l","e","a","s","e"," ","e","n","s","u","r","e"," ","i","t"," ","i","s"," ","i","n","s","t","a","l","l","e","d"," ","c","o","r","r","e","c","t","l","y",".">>)
    /\ spawnError \notin {Undefined, <<"E","N","O","E","N","T">>} =>
           RejectedWith(UNKNOWN_ERROR, 500, <<"s","p","a","w","n"," ","a","k","a","v","e","c","l","i"," ">> \o spawnError)
    /\ (outcome.state = "rejected" /\ outcome.error.code = SYSTEM_ERROR) =>
           spawnError = <<"E","N","O","E","N","T">>

\* C4: the binary was not found, 'error' and 'close' were both handled and
\* the call stands rejected with SYSTEM_ERROR
C4_Witness ==
    /\ spawnError = <<"E","N","O","E","N","T">>
    /\ exitCode # <<>>
    /\ pc = "done"
    /\ outcome.state = "rejected"
    /\ outcome.error.code = SYSTEM_ERROR

C6_ValidatedBeforeSpawn ==
    (/\ op # "none"
     /\ \/ TakesBucket(op) /\ IsBlank(bucketName)
        \/ TakesFile(op) /\ IsBlank(fileName)) =>
        /\ outcome.state = "rejected"
        /\ outcome.error.code = VALIDATION_ERROR
        /\ outcome.error.status = 400
        /\ spawned = 0

\* C7: no exception leaves an event handler unclassified, and every error
\* the call is rejected with is a classified error whose status is the
\* registry's for its code, 500 when the registry has none
C7_AlwaysClassified ==
    /\ uncaught = NoError
    /\ pc # "hung"
    /\ outcome.state = "rejected" =>
           /\ outcome.error.name = "AkaveError"
           /\ outcome.error.status =
                  IF outcome.error.code \in Keys(ErrorHttpStatus)
                  THEN StatusOf(outcome.error.code)
                  ELSE 500

\* C8: once the subprocess has closed with an exit code other than 0, the
\* call is rejected; when stderr held no hex code and no known literal, the
\* error is the one classified from the stderr text, or from the combined
\* output when stderr is empty
C8_NonZeroExitRejects ==
    (Closed /\ exitCode # <<0>>) =>
        /\ outcome.state = "rejected"
        /\ (/\ ~HasHexCode(stderr)
            /\ ~Includes(stderr, <<"B","u","c","k","e","t","N","o","n","e","m","p","t","y">>)
            /\ ~Includes(stderr, <<"F","i","l","e","F","u","l","l","y","U","p","l","o","a","d","e","d">>)) =>
               outcome.error =
                   handleError(NewError(IF stderr # <<>> THEN stderr
                                        ELSE CombinedOutput), CombinedOutput).error

\* C9: once the subprocess has closed with exit code 0 and a stderr that
\* shows no error, a failure of the output parser, whatever the parser kind,
\* rejects the call with the BUCKET_INVALID error, status 400
C9_ParseFailureIsInvalidFormat ==
    (/\ Closed
     /\ exitCode = <<0>>
     /\ ~HasHexCode(stderr)
     /\ ~Includes(stderr, <<"B","u","c","k","e","t","N","o","n","e","m","p","t","y">>)
     /\ ~Includes(stderr, <<"F","i","l","e","F","u","l","l","y","U","p","l","o","a","d","e","d">>)
     /\ parseOutput(CombinedOutput, parser).kind = "throw") =>
        /\ outcome.state = "rejected"
        /\ outcome.error.name = "AkaveError"
        /\ outcome.error.code = SDKErrors.BUCKET_INVALID
        /\ outcome.error.status = 400

\* C10: for a single-record parser kind, with exit code 0 and an empty
\* stderr, output that is not JSON and is empty, lacks the required prefix
\* or holds a pair without '=' rejects the call with the BUCKET_INVALID
\* classified error
C10_MalformedRecordIsInvalidFormat ==
    (/\ Closed
     /\ exitCode = <<0>>
     /\ stderr = <<>>
     /\ parser \in {"createBucket", "viewBucket", "fileInfo"}
     /\ JSONParse(CombinedOutput).kind = "throw"
     /\ \/ CombinedOutput = <<>>
        \/ ~StartsWith(CombinedOutput, RecordPrefix(parser))
        \/ PairWithoutEquals(CombinedOutput, RecordPrefix(parser))) =>
        /\ outcome.state = "rejected"
        /\ outcome.error.name = "AkaveError"
        /\ outcome.error.code = SDKErrors.BUCKET_INVALID

----------------------------------------------------------------------------
(* Records, as the claims word them *)

\* the subprocess has closed with exit code 0 and a stderr that shows no error
ClosedClean ==
    /\ Closed
    /\ exitCode = <<0>>
    /\ ~HasHexCode(stderr)
    /\ ~Includes(stderr, <<"B","u","c","k","e","t","N","o","n","e","m","p","t","y">>)
    /\ ~Includes(stderr, <<"F","i","l","e","F","u","l","l","y","U","p","l","o","a","d","e","d">>)

\* the text is valid JSON
IsJSON(text) ==
    LET t == Trim(text)
    IN  \/ IsJSONNumber(t)
        \/ t \in {<<"t","r","u","e">>, <<"f","a","l","s","e">>, <<"n","u","l","l">>}
        \/ IsJSONString(t)

\* the text before and the text after the first "=" of a pair
BeforeEquals(pair) == SubSeq(pair, 1, IndexOf(pair, <<"=">>))

AfterEquals(pair) == Substring(pair, IndexOf(pair, <<"=">>) + 1)

\* a key=value pair: one "=", between a key and a value that are not blank
IsPair(pair) ==
    /\ Cardinality({i \in 1..Len(pair) : pair[i] = "="}) = 1
    /\ Trim(BeforeEquals(pair)) # <<>>
    /\ Trim(AfterEquals(pair)) # <<>>

\* the pairs of a record text: what follows the prefix, split at ", "
PairsOf(text, prefix) == Split(Trim(Substring(text, Len(prefix))), <<","," ">>)

\* the prefix followed by key=value pairs separated by ", "
WellFormedRecord(text, prefix) ==
    /\ StartsWith(text, prefix)
    /\ \A i \in DOMAIN PairsOf(text, prefix) : IsPair(PairsOf(text, prefix)[i])

\* a well-formed record with a white-space character between the prefix and
\* the first pair, and no key twice
SpacedRecord(text, prefix) ==
    LET pairs == PairsOf(text, prefix)
    IN  /\ WellFormedRecord(text, prefix)
        /\ Len(text) > Len(prefix)
        /\ text[Len(prefix) + 1] \in Whitespace
        /\ \A i, j \in DOMAIN pairs :
               i # j => Trim(BeforeEquals(pairs[i])) # Trim(BeforeEquals(pairs[j]))

\* the value is the record holding one field per pair, the trimmed key
\* mapped to the trimmed value
HoldsRecord(value, pairs) ==
    /\ value.t = "object"
    /\ DOMAIN value.fields = {Trim(BeforeEquals(pairs[i])) : i \in DOMAIN pairs}
    /\ Cardinality(DOMAIN value.fields) = Len(pairs)
    /\ \A i \in DOMAIN pairs :
           value.fields[Trim(BeforeEquals(pairs[i]))] = Trim(AfterEquals(pairs[i]))

SingleRecordKinds == {"createBucket", "viewBucket", "fileInfo"}

ListKinds == {"listBuckets", "listFiles"}

----------------------------------------------------------------------------
(* The claims on the output parser and the transaction lookup *)

PrefixedLines(text, prefix) ==
    SelectSeq(Split(text, <<"\n">>), LAMBDA line : StartsWith(line, prefix))

MarkerLines(text) ==
    SelectSeq(Split(text, <<"\n">>),
              LAMBDA line : Includes(line, <<"F","i","l","e"," ","u","p","l","o","a","d","e","d"," ","s","u","c","c","e","s","s","f","u","l","l","y",":">>))

\* the pairs after the marker in a line that holds it
TailPairs(line) ==
    Split(Trim(Substring(line, IndexOf(line, <<"F","i","l","e"," ","u","p","l","o","a","d","e","d"," ","s","u","c","c","e","s","s","f","u","l","l","y",":">>)
                               + Len(<<"F","i","l","e"," ","u","p","l","o","a","d","e","d"," ","s","u","c","c","e","s","s","f","u","l","l","y",":">>))),
          <<","," ">>)

\* key=value pairs with distinct keys
DistinctPairs(pairs) ==
    /\ \A i \in DOMAIN pairs : IsPair(pairs[i])
    /\ \A i, j \in DOMAIN pairs :
           i # j => Trim(BeforeEquals(pairs[i])) # Trim(BeforeEquals(pairs[j]))

\* what C13 says of an upload output
UploadOutcome(text) ==
    /\ Includes(text, <<"F","i","l","e","F","u","l","l","y","U","p","l","o","a","d","e","d">>) =>
           /\ RejectedWith(SDKErrors.FILE_FULLY_UPLOADED, 409,
                           <<"F","i","l","e"," ","i","s"," ","a","l","r","e","a","d","y"," ","f","u","l","l","y"," ","u","p","l","o","a","d","e","d">>)
           /\ outcome.error.original = text
    /\ (/\ ~Includes(text, <<"F","i","l","e","F","u","l","l","y","U","p","l","o","a","d","e","d">>)
        /\ MarkerLines(text) # <<>>
        /\ DistinctPairs(TailPairs(MarkerLines(text)[1]))) =>
           /\ promise.state = "resolved"
           /\ HoldsRecord(promise.value, TailPairs(MarkerLines(text)[1]))
    /\ (/\ ~Includes(text, <<"F","i","l","e","F","u","l","l","y","U","p","l","o","a","d","e","d">>)
        /\ MarkerLines(text) = <<>>) =>
           /\ outcome.state = "rejected"
           /\ Includes(outcome.error.message, text)
           /\ parseOutput(text, parser).kind = "throw"
           /\ parseOutput(text, parser).error.message =
                  <<"F","i","l","e"," ","u","p","l","o","a","d"," ","f","a","i","l","e","d",":"," ">> \o text

\* C13, as stated: for the upload kind, with exit code 0, output holding
\* 'FileFullyUploaded' raises the file-fully-uploaded classified error;
\* otherwise the result is the record of the pairs after the marker in the
\* first line holding 'File uploaded successfully:'; with no such line
\* parsing fails with an error that embeds the output
C13_EveryUploadText ==
    (ClosedClean /\ parser = "uploadFile") => UploadOutcome(CombinedOutput)

\* C13, amended: the same for every output that is not JSON
C13_UploadText ==
    (/\ ClosedClean
     /\ parser = "uploadFile"
     /\ ~IsJSON(CombinedOutput)) => UploadOutcome(CombinedOutput)

\* C13: an upload whose output holds the marker in two lines, parsed into the
\* record of the first
C13_Witness ==
    /\ ClosedClean
    /\ parser = "uploadFile"
    /\ stdout = <<"u","p",":"," ","F","i","l","e"," ","u","p","l","o","a","d","e","d"," ","s","u","c","c","e","s","s","f","u","l","l","y",":"," ","N","a","m","e","=","a","b","\n","F","i","l","e"," ","u","p","l","o","a","d","e","d"," ","s","u","c","c","e","s","s","f","u","l","l","y",":"," ","N","a","m","e","=","c","d","\n">>
    /\ promise.state = "resolved"
    /\ promise.value.fields[<<"N","a","m","e">>] = <<"a","b">>

\* what C14 says of a deletion output
DeletionOutcome(text) ==
    /\ Includes(text, <<"B","u","c","k","e","t","N","o","n","e","m","p","t","y">>) =>
           /\ RejectedWith(SDKErrors.BUCKET_NONEMPTY, 400, <<"B","u","c","k","e","t"," ","i","s"," ","n","o","t"," ","e","m","p","t","y">>)
           /\ outcome.error.original = text
    /\ (/\ ~Includes(text, <<"B","u","c","k","e","t","N","o","n","e","m","p","t","y">>)
        /\ StartsWith(text, <<"B","u","c","k","e","t"," ","d","e","l","e","t","e","d",":">>)) =>
           /\ promise.state = "resolved"
           /\ promise.value.t = "object"
           /\ DOMAIN promise.value.fields = {<<"m","e","s","s","a","g","e">>}
           /\ promise.value.fields[<<"m","e","s","s","a","g","e">>] = <<"B","u","c","k","e","t"," ","d","e","l","e","t","e","d"," ","s","u","c","c","e","s","s","f","u","l","l","y">>
    /\ (/\ ~Includes(text, <<"B","u","c","k","e","t","N","o","n","e","m","p","t","y">>)
        /\ ~StartsWith(text, <<"B","u","c","k","e","t"," ","d","e","l","e","t","e","d",":">>)) =>
           /\ RejectedWith(SDKErrors.BUCKET_INVALID, 400, MessageOf(SDKErrors.BUCKET_INVALID))
           /\ outcome.error.original = <<"I","n","v","a","l","i","d"," ","r","e","s","p","o","n","s","e"," ","f","o","r","m","a","t">>

\* C14, as stated: for the deletion kind, with exit code 0, every output text
\* holding 'BucketNonempty' gives the bucket-not-empty classified error,
\* whether or not it starts with 'Bucket deleted:'; any other text starting
\* with 'Bucket deleted:' gives the acknowledgment record, and any other text
\* is a parse failure
C14_EveryDeletionText ==
    (ClosedClean /\ parser = "deleteBucket") => DeletionOutcome(CombinedOutput)

\* C14, amended: the same for every output text that is not JSON
C14_DeletionText ==
    (/\ ClosedClean
     /\ parser = "deleteBucket"
     /\ ~IsJSON(CombinedOutput)) => DeletionOutcome(CombinedOutput)

\* C14: a deletion whose output starts with 'Bucket deleted:' and holds
\* 'BucketNonempty', rejected with the bucket-not-empty error
C14_Witness ==
    /\ ClosedClean
    /\ parser = "deleteBucket"
    /\ stdout = <<"B","u","c","k","e","t"," ","d","e","l","e","t","e","d",":","B","u","c","k","e","t","N","o","n","e","m","p","t","y">>
    /\ stderr = <<>>
    /\ outcome.state = "rejected"
    /\ outcome.error.code = SDKErrors.BUCKET_NONEMPTY

\* C15, as stated: for the download kind, with exit code 0 and no error in
\* stderr, the call resolves for every text with the string that is the
\* combined output
C15_EveryDownloadText ==
    (ClosedClean /\ parser = "downloadFile") =>
        /\ outcome.state = "resolved"
        /\ outcome.value.t = "string"
        /\ outcome.value.text = CombinedOutput

\* C15, amended: for the download kind, with exit code 0 and no error in
\* stderr, the call resolves for every text that is not JSON with the string
\* that is the combined output, white space at its ends removed
C15_DownloadText ==
    (/\ ClosedClean
     /\ parser = "downloadFile"
     /\ ~IsJSON(CombinedOutput)) =>
        /\ outcome.state = "resolved"
        /\ outcome.value.t = "string"
        /\ outcome.value.text = Trim(stdout \o stderr)
        /\ outcome.value.fields = <<>>
        /\ outcome.value.items = <<>>

\* C15: a download whose subprocess wrote a record text and exited with 0,
\* resolved with that text
C15_Witness ==
    /\ ClosedClean
    /\ parser = "downloadFile"
    /\ stdout = <<"F","i","l","e"," ","d","o","w","n","l","o","a","d","e","d",":"," ","N","a","m","e","=","a","b">>
    /\ outcome.state = "resolved"
    /\ outcome.value.text = <<"F","i","l","e"," ","d","o","w","n","l","o","a","d","e","d",":"," ","N","a","m","e","=","a","b">>

\* the hash of the last transaction of the block sent from the address of
\* the client, letter case aside; Null when the block holds none
LastMatching(block) ==
    LET I == {i \in DOMAIN block :
                 /\ block[i].from # Undefined
                 /\ ToLowerCase(block[i].from) = ToLowerCase(Address)}
    IN  IF I = {} THEN Null
        ELSE block[CHOOSE i \in I : \A j \in I : i >= j].hash

\* C16: getLatestTransaction looks up at most two blocks. When the first
\* block holds a transaction sent from the address, letter case aside, it
\* returns the hash of the last one after one getBlockNumber and one getBlock
\* and no delay; when the first block holds none it makes one further lookup
\* after one delay and returns the hash of the last such transaction of the
\* second block, or null; there is never a third lookup
C16_AtMostTwoLookups ==
    /\ lookup.getBlockNumber <= 2
    /\ lookup.getBlock <= lookup.getBlockNumber
    /\ lookup.delays <= 1
    /\ Len(lookup.blocks) <= lookup.getBlock
    /\ (Len(lookup.blocks) >= 1 /\ LastMatching(lookup.blocks[1]) # Null) =>
           /\ pc = "done"
           /\ txHash = LastMatching(lookup.blocks[1])
           /\ lookup.getBlockNumber = 1
           /\ lookup.getBlock = 1
           /\ lookup.delays = 0
    /\ (Len(lookup.blocks) >= 1 /\ LastMatching(lookup.blocks[1]) = Null) =>
           /\ lookup.delays = 1
           /\ pc \in {"delay", "done"}
           /\ pc = "delay" => (lookup.getBlockNumber = 1 /\ lookup.getBlock = 1)
           /\ pc = "done" =>
                  /\ lookup.getBlockNumber = 2
                  /\ txHash = IF Len(lookup.blocks) = 2
                              THEN LastMatching(lookup.blocks[2])
                              ELSE Null

\* C16: the first block held a transaction of another sender only, the
\* second block two transactions of the address, and the lookup returned
\* the hash of the second of them
C16_Witness ==
    /\ pc = "done"
    /\ Len(lookup.blocks) = 2
    /\ Len(lookup.blocks[1]) >= 1
    /\ LastMatching(lookup.blocks[1]) = Null
    /\ Len(lookup.blocks[2]) = 2
    /\ \A i \in 1..2 : ToLowerCase(lookup.blocks[2][i].from) = ToLowerCase(Address)
    /\ lookup.blocks[2][1].hash # lookup.blocks[2][2].hash
    /\ lookup.blocks[2][2].from # Address
    /\ txHash = lookup.blocks[2][2].hash

\* C17: getLatestTransaction always returns and never throws, and when an RPC
\* call fails, getBlockNumber or getBlock, in the first attempt or in the
\* second, it returns null
C17_FailureGivesNull ==
    /\ (trackTransaction /\ promise.state = "resolved" /\ pc = "done") =>
           /\ txHash # Undefined
           /\ outcome.state = "resolved"
    /\ lookup.failed # "none" =>
           /\ pc = "done"
           /\ txHash = Null
           /\ outcome = Resolved(promise.value)

\* C17: getBlock failed in the second attempt and the lookup returned null
C17_Witness ==
    /\ lookup.failed = "getBlock"
    /\ lookup.getBlockNumber = 2
    /\ lookup.getBlock = 2
    /\ Len(lookup.blocks) = 1
    /\ pc = "done"
    /\ txHash = Null

----------------------------------------------------------------------------
(* The claims on the upload and download routes *)

\* the request to the upload route carried a file and has been answered
BufferedUploadDone ==
    /\ request.route = "upload"
    /\ request.buffered
    /\ spc = "done"

\* C18, as stated: once a buffered upload request has completed, its
\* temporary directory and the temporary file in it no longer exist, whether
\* the upload succeeded, uploadFile rejected or writing the file failed.
\* server.ts removes them after a resolved upload only.
C18_TemporaryFilesRemoved ==
    BufferedUploadDone => (~disk.tempDir /\ ~disk.tempFile)

\* the part of C18 that server.js keeps: its finally block removes the
\* directory on every path
C18_ServerJsRemoves ==
    (BufferedUploadDone /\ request.handler = "server.js") =>
        (~disk.tempDir /\ ~disk.tempFile)

C18_ServerJsRemovesReached ==
    /\ BufferedUploadDone
    /\ request.handler = "server.js"
    /\ response.status = 404

\* the download route has found the file readable and has answered
Served ==
    /\ request.route = "download"
    /\ spc = "done"
    /\ disk.file = "readable"

\* the answer to a request for the bytes start..end of a file of n bytes
RangeAnswer(start, end) ==
    LET n == Len(disk.content)
    IN  /\ (start <= end /\ end < n) =>
               /\ response.status = 206
               /\ response.sent = 1
               /\ response.contentRange =
                      <<"b","y","t","e","s"," ">> \o NatToString(start) \o <<"-">>
                          \o NatToString(end) \o <<"/">> \o NatToString(n)
               /\ response.contentLength = NatToString(end - start + 1)
               /\ response.body = SubSeq(disk.content, start + 1, end + 1)
        /\ (start >= n \/ end >= n) =>
               /\ response.status = 416
               /\ response.sent = 1
               /\ response.json = RangeNotSatisfiable
               /\ response.body = <<>>

\* C19: a download with Range bytes=start-end on a file of n bytes is
\* answered 206 with Content-Range bytes start-end/n, Content-Length
\* end-start+1 and the bytes start..end when 0 <= start <= end < n, an
\* omitted end meaning n-1, and 416 with the body {success: false, error:
\* "Requested range not satisfiable"} when start >= n or end >= n.
C19_ByteRange ==
    Served =>
        /\ \A s, e \in 0..(MaxSize + 1) :
               request.range = ByteRange(s, e) => RangeAnswer(s, e)
        /\ \A s \in 0..(MaxSize + 1) :
               request.range = OpenRange(s) =>
                   RangeAnswer(s, Len(disk.content) - 1)

\* a range with its end omitted has been answered with the tail of the file
C19_Witness ==
    /\ Served
    /\ request.range = OpenRange(1)
    /\ Len(disk.content) = 3
    /\ response.status = 206
    /\ response.contentRange = <<"b","y","t","e","s"," ","1","-","2","/","3">>
    /\ response.contentLength = <<"2">>
    /\ response.body = SubSeq(disk.content, 2, 3)

\* a range beyond the file has been answered 416
C19_NotSatisfiableReached ==
    /\ Served
    /\ request.range = ByteRange(1, 3)
    /\ Len(disk.content) = 3
    /\ response.status = 416

\* the text is a byte range: bytes=first-last, bytes=first- or bytes=-suffix
IsByteRange(range) ==
    /\ StartsWith(range, <<"b","y","t","e","s","=">>)
    /\ LET parts == Split(Substring(range, 6), <<"-">>)
           AllDigits(s) == \A i \in 1..Len(s) : s[i] \in Digits
       IN  /\ Len(parts) = 2
           /\ AllDigits(parts[1])
           /\ AllDigits(parts[2])
           /\ parts[1] # <<>> \/ parts[2] # <<>>

\* the whole file with status 200
FullAnswer ==
    /\ response.status = 200
    /\ response.sent = 1
    /\ response.acceptRanges = <<"b","y","t","e","s">>
    /\ response.contentLength = NatToString(Len(disk.content))
    /\ response.body = disk.content

\* C20, as stated: a download whose Range header is not a well-formed byte
\* range, such as invalid-range, is answered 200 with the whole file and
\* Content-Length the size of the file, never 206 or 416, and so is a
\* download without a Range header, with Accept-Ranges bytes.  server.js
\* answers invalid-range with status 206, server.ts answers bytes=a-b with
\* status 416.
C20_MalformedRangeIsFull ==
    (Served /\ (request.range = Undefined \/ ~IsByteRange(request.range))) =>
        FullAnswer

\* the part of C20 that both servers keep: without a Range header the
\* answer is 200 with Accept-Ranges bytes and the whole file
C20_NoRangeIsFull ==
    (Served /\ request.range = Undefined) => FullAnswer

C20_NoRangeIsFullReached ==
    /\ Served
    /\ request.range = Undefined
    /\ Len(disk.content) = 2
    /\ response.status = 200

----------------------------------------------------------------------------
(* The claims on the executor as a whole *)

\* the text handleError is given when the subprocess exits with another code
\* than 0: stderr || output
FailureMessage == IF stderr # <<>> THEN stderr ELSE CombinedOutput

HoldsLiteral(s) ==
    Includes(s, <<"B","u","c","k","e","t","N","o","n","e","m","p","t","y">>) \/ Includes(s, <<"F","i","l","e","F","u","l","l","y","U","p","l","o","a","d","e","d">>)

\* C21, as stated: an error text that holds both a hex code of the registry
\* and 'BucketNonempty' or 'FileFullyUploaded' is classified by the hex
\* code, in the stderr inspection of executeCommand and in handleError.
\* handleError looks for the two literals before it looks for a hex code.
C21_HexCodeBeforeLiteral ==
    (Closed /\ exitCode # <<0>>) =>
        \A c \in Keys(ErrorHttpStatus) :
            (FirstHexCode(FailureMessage, c) /\ HoldsLiteral(FailureMessage)) =>
                /\ outcome.state = "rejected"
                /\ outcome.error.code = c

\* the part of C21 that the stderr inspection keeps: a stderr that holds a
\* hex code with a status in the registry and a literal is classified by the
\* hex code
C21_StderrHexCodeFirst ==
    Closed =>
        \A c \in Keys(ErrorHttpStatus) :
            (FirstHexCode(stderr, c) /\ HoldsLiteral(stderr)) =>
                /\ outcome.state = "rejected"
                /\ outcome.error.code = c

C21_StderrHexCodeFirstReached ==
    /\ Closed
    /\ stderr = <<"B","u","c","k","e","t","N","o","n","e","m","p","t","y">> \o SDKErrors.BUCKET_NONEXISTS
    /\ outcome.state = "rejected"
    /\ outcome.error.code = SDKErrors.BUCKET_NONEXISTS

\* C22, as stated: once the subprocess has closed or has failed to spawn,
\* the promise of the call is settled, resolved with a result or rejected
\* with an error, whatever stdout, stderr and the exit code hold, a hex-like
\* code that the registry does not list included; no exception thrown inside
\* an event handler leaves it pending.  createAkaveError throws a
\* ReferenceError for a code without a status, before reject is called.
C22_SettledAfterClose ==
    (exitCode # <<>> \/ spawnError # Undefined) => promise.state # "pending"

\* the part of C22 that the executor keeps: when no handler threw, the
\* promise is settled once the subprocess has closed or has failed to spawn
C22_SettledUnlessThrown ==
    ((exitCode # <<>> \/ spawnError # Undefined) /\ uncaught = NoError) =>
        promise.state # "pending"

C22_SettledUnlessThrownReached ==
    /\ Closed
    /\ stderr = <<"w","a","r","n",":"," ">>
    /\ exitCode = <<1>>
    /\ promise.state = "rejected"
    /\ uncaught = NoError

\* the handler of 'close' or of 'error' has run: the outcome is decided
OutcomeDecided == exitCode # <<>> \/ spawnError # Undefined

\* C23: the outcome of executeCommand is decided only after stdout and
\* stderr have reached their end: once it is decided no data chunk is
\* appended to either buffer, so that the text that was inspected is the
\* complete stdout and the complete stderr of the subprocess.
C23_NoDataAfterOutcome ==
    [][OutcomeDecided => (stdout' = stdout /\ stderr' = stderr)]_vars

\* a subprocess that wrote to both streams has closed and the outcome is
\* decided
C23_Witness ==
    /\ OutcomeDecided
    /\ stdout # <<>>
    /\ stderr # <<>>
    /\ promise.state # "pending"

\* the operations that ask for the transaction hash
TrackedOperations == {"createBucket", "deleteBucket", "uploadFile"}

\* C24: getLatestTransaction is called only for createBucket, deleteBucket
\* and uploadFile and only after the subprocess has closed with code 0, no
\* error in stderr, and an output that was parsed; it is not called when the
\* command fails (error in stderr, non-zero exit, parse failure, spawn
\* failure) nor when validation rejects, and it is called at most once.
C24_LookupAfterSuccessOnly ==
    /\ lookup.calls <= 1
    /\ lookup.calls > 0 =>
           /\ op \in TrackedOperations
           /\ Closed
           /\ exitCode = <<0>>
           /\ ~HasHexCode(stderr)
           /\ ~HoldsLiteral(stderr)
           /\ parseOutput(CombinedOutput, parser).kind = "return"
           /\ promise = Resolved(parseOutput(CombinedOutput, parser).value)
    /\ (\/ spawned = 0
        \/ spawnError # Undefined
        \/ promise.state = "rejected"
        \/ outcome.state = "rejected"
        \/ pc = "hung") => lookup.calls = 0

\* deleteBucket has resolved after one call of the lookup
C24_Witness ==
    /\ op = "deleteBucket"
    /\ pc = "done"
    /\ lookup.calls = 1
    /\ outcome.state = "resolved"
    /\ txHash = <<"0","x","1">>

\* C25: a call of executeCommand spawns one subprocess and never another,
\* whatever the outcome: success, classified error, parse failure, non-zero
\* exit or failed spawn; no operation of the client retries the subprocess.
C25_OneSubprocess ==
    /\ spawned <= 1
    /\ (pc # "idle" /\ outcome.error.code # VALIDATION_ERROR) => spawned = 1

\* a subprocess has exited with code 1 and the call is rejected, one
\* subprocess having been spawned
C25_Witness ==
    /\ Closed
    /\ exitCode = <<1>>
    /\ outcome.state = "rejected"
    /\ pc = "done"
    /\ spawned = 1

\* a pair with a key and a value that are not blank, the value being what
\* follows the first "="
IsKeyedPair(pair) ==
    /\ Includes(pair, <<"=">>)
    /\ Trim(BeforeEquals(pair)) # <<>>
    /\ Trim(AfterEquals(pair)) # <<>>

\* C26, as stated: a key=value pair is split at its first '=' only: when the
\* value holds '=' itself, as in 'Hash=ab=cd', the parsed field holds all
\* that follows the first '=' ('ab=cd').  The parsers take the second
\* element of info.split("="), which ends at the second '='.
C26_SplitAtFirstEquals ==
    (/\ ClosedClean
     /\ parser \in SingleRecordKinds
     /\ StartsWith(CombinedOutput, RecordPrefix(parser) \o <<" ">>)
     /\ \A i \in DOMAIN PairsOf(CombinedOutput, RecordPrefix(parser)) :
            IsKeyedPair(PairsOf(CombinedOutput, RecordPrefix(parser))[i])) =>
        /\ promise.state = "resolved"
        /\ promise.value.t = "object"
        /\ \A i \in DOMAIN PairsOf(CombinedOutput, RecordPrefix(parser)) :
               LET pair == PairsOf(CombinedOutput, RecordPrefix(parser))[i]
               IN  /\ Trim(BeforeEquals(pair)) \in DOMAIN promise.value.fields
                   /\ \/ promise.value.fields[Trim(BeforeEquals(pair))]
                             = Trim(AfterEquals(pair))
                      \/ \E j \in (i + 1)..Len(PairsOf(CombinedOutput, RecordPrefix(parser))) :
                             Trim(BeforeEquals(PairsOf(CombinedOutput, RecordPrefix(parser))[j]))
                                 = Trim(BeforeEquals(pair))

\* the value 'ab=cd' of Hash has been parsed
C26_ValueWithEqualsParsed ==
    /\ ClosedClean
    /\ parser = "viewBucket"
    /\ CombinedOutput = <<"B","u","c","k","e","t",":"," ","H","a","s","h","=","a","b","=","c","d">>
    /\ promise.state = "resolved"

\* what a call settles with when it runs alone: the close handler on what
\* its own subprocess wrote
Alone(call) ==
    Settle(Pending,
           closeHandler(toString(flight[call].out), toString(flight[call].err),
                        flight[call].code[1], flight[call].kind))

C28_SettlesOnce ==
    [][/\ promise.state # "pending" => promise' = promise
       /\ outcome.state # "pending" => outcome' = outcome
       /\ spawnError # Undefined => (lookup.calls = 0 /\ lookup' = lookup)]_vars

\* a spawn that failed with EACCES: 'error' and 'close' were both handled
\* and the call stands rejected with the error of the 'error' handler
C28_Witness ==
    /\ spawnError = <<"E","A","C","C","E","S">>
    /\ exitCode # <<>>
    /\ pc = "done"
    /\ promise.state = "rejected"
    /\ promise.error.message = <<"s","p","a","w","n"," ","a","k","a","v","e","c","l","i"," ","E","A","C","C","E","S">>
    /\ outcome = Rejected(promise.error)
    /\ lookup.calls = 0

\* the call in flight whose subprocess writes chunks of any cut
TheCall == flight["first"]

\* C29, as stated: the outcome of executeCommand depends only on the whole
\* text of stdout, the whole text of stderr and the exit code: it is the
\* same however the text is cut into chunks and however the chunks of the
\* two streams are interleaved.  Each chunk is decoded on its own by
\* data.toString(), so a character cut between two chunks becomes two
\* replacement characters.
C29_TextDecidesOutcome ==
    TheCall.pc = "closed" =>
        /\ buffers["first"].stdout = toString(TheCall.out)
        /\ buffers["first"].stderr = toString(TheCall.err)
        /\ TheCall.promise =
               Settle(Pending,
                      closeHandler(toString(TheCall.out), toString(TheCall.err),
                                   TheCall.code[1], TheCall.kind))

\* the part of C29 that the executor keeps: a hex code of the registry or
\* 'BucketNonempty' in the whole text of stderr is detected however stderr
\* was cut into chunks
C29_CutSignalDetected ==
    TheCall.pc = "closed" =>
        /\ FirstHexCode(TheCall.err, SDKErrors.BUCKET_NONEXISTS) =>
               /\ TheCall.promise.state = "rejected"
               /\ TheCall.promise.error.code = SDKErrors.BUCKET_NONEXISTS
        /\ (Includes(TheCall.err, <<"B","u","c","k","e","t","N","o","n","e","m","p","t","y">>) /\ ~HasHexCode(TheCall.err)) =>
               /\ TheCall.promise.state = "rejected"
               /\ TheCall.promise.error.code = SDKErrors.BUCKET_NONEMPTY

C29_CutSignalDetectedReached ==
    /\ TheCall.pc = "closed"
    /\ TheCall.chunks = 2
    /\ TheCall.err = <<"B","u","c","k","e","t","N","o","n","e","m","p","t","y">>
    /\ TheCall.promise.state = "rejected"


\* C30: every HTTP request the server handles receives exactly one response:
\* once a handler has answered, it writes nothing more to the same response.
\* The download route of server.js answers twice when the downloaded file is
\* missing or unreadable
C30_ExactlyOneResponse ==
    spc = "done" => (response.sent = 1 /\ response.late = 0)

\* C30, the part that holds: a handler that has finished has answered
C30_EveryRequestAnswered ==
    spc = "done" => response.sent = 1

\* the download route of server.js has written to a response already sent
C30_SecondResponseReached ==
    /\ spc = "done"
    /\ request.route = "download"
    /\ request.handler = "server.js"
    /\ disk.file # "readable"
    /\ response.sent = 1
    /\ response.late = 1

\* the route that lists files has answered a failed call once
C30_ListFilesAnsweredReached ==
    /\ spc = "done"
    /\ request.route = "listFiles"
    /\ response.status = 404
    /\ response.late = 0

====
